---- MODULE Spec2Model ----
(***************************************************************************)
(* Model of the Carla engine core (source/backend/engine/carla_engine.cpp):*)
(* the plugin table, the post-action slot shared by the control thread and *)
(* the audio (RT) thread, and the plugin life cycle.                       *)
(*                                                                         *)
(* A plugin object is a heap cell named by a pointer 1..MaxAlloc; NULL is  *)
(* the null pointer.  Deleted cells keep their address, so a dangling      *)
(* pointer stays distinguishable from a live one.                          *)
(*                                                                         *)
(* Undefined behaviour (dereference or delete of a deleted plugin, a read  *)
(* one past the end of the table) is a choice between the process crashing *)
(* (crashed, a terminal state) and the access behaving as on ordinary      *)
(* memory.  An access far outside the table (index >= maxPluginNumber in   *)
(* a write, or in the RT loop) crashes.                                    *)
(***************************************************************************)
EXTENDS Integers, Sequences, FiniteSets, TLC

\* ------------------------------------------------------------------ bounds
\* Table sizes per process mode, scaled down (source: 16 / 999 / 99).
MAX_RACK_PLUGINS == 3
MAX_PATCHBAY_PLUGINS == 3
MAX_DEFAULT_PLUGINS == 2
\* Number of plugin objects ever constructed in one run.
MaxAlloc == 4
\* Modulus of unsigned int arithmetic.  The source's is 2^32; the checker's
\* integers are 32-bit signed, so the counter wraps modulo 2^30 here: as in
\* the source, 0 - 1 is a value far above every table size.
UintModulus == 1073741824
\* How far below zero the removals of one run may take the count.
MaxUnderflow == 1
\* Event buffer capacities per process mode, scaled down (source: 512 each).
RACK_EVENT_COUNT == 2
PATCHBAY_EVENT_COUNT == 4
\* Samples per channel in one block (the spec's scenario uses 512).
Frames == 2
\* How many plugins the rack holds at most while two control threads remove.
MaxConcurrentPlugins == 2
\* STR_MAX, scaled down (source: 255): maxClientNameSize() is half of it
\* and a requested name is cut to six characters less, here 10, the length
\* of "synth (10)".
STR_MAX == 32

\* ------------------------------------------------------------- constants
NULL == 0

MAX_MIDI_CHANNELS == 16

Pointers == 1..MaxAlloc

ControlThreads == {"c1", "c2"}
\* The control thread that drives the engine.
MainThread == "c1"

ProcessModes == {"SINGLE_CLIENT", "MULTIPLE_CLIENTS", "CONTINUOUS_RACK", "PATCHBAY", "BRIDGE"}
EngineTypes == {"Jack", "RtAudio", "Plugin"}
BinaryTypes == {"NATIVE", "POSIX32", "POSIX64", "WIN32", "WIN64", "OTHER"}
PluginTypes == {"NONE", "INTERNAL", "LADSPA", "DSSI", "LV2", "VST", "GIG", "SF2", "SFZ"}

ZeroPeak == <<0, 0>>
\* Peak values a plugin reports through setPeaks.
PeakInputs == {<<1, 1>>}
\* The ids of the plugins that report peaks.
PeakIds == {0}

ErrMaxReached == "Maximum number of plugins reached"
ErrBridgeMode == "Can only use bridged plugins in JACK Multi-Client mode"
ErrBridgeBackend == "Can only use bridged plugins with JACK backend"
ErrBridgeTodo == "Bridged plugins are not implemented yet"
ErrNotFound == "Could not find plugin to remove"
ErrLoader == "loader error"

VARIABLES
    options,          \* fOptions
    engineType,       \* type()
    running,          \* isRunning()
    aboutToClose,     \* kData->aboutToClose
    maxPluginNumber,  \* kData->maxPluginNumber
    curPluginCount,   \* kData->curPluginCount (unsigned int)
    plugins,          \* kData->plugins[0..maxPluginNumber)
    heap,             \* the CarlaPlugin objects: state and fId
    nextAction,       \* kData->nextAction.{opcode, pluginId}
    mutexLocked,      \* kData->nextAction.mutex
    threadRunning,    \* kData->thread (housekeeping)
    lastError,        \* kData->lastError
    ctl,              \* per control thread: position in its call and locals
    lastCall,         \* the most recent control call and its result
    cbLog,            \* callbacks emitted by the most recent control call
    rt,               \* the audio thread: position in the block, loop index
    crashed,          \* the process died on undefined behaviour
    ubSeen,           \* undefined behaviour was executed (history)
    optLog,           \* qCritical messages of the most recent setOption call
    port,             \* a CarlaEngineEventPort: kIsInput, kProcessMode, kMaxEventCount, fBuffer
    events,           \* the EngineEvent array the port's fBuffer refers to
    portRet,          \* the most recent read of the port and what it returned
    fEnabled,         \* per CarlaPlugin object: what enabled() returns
    inBuf,            \* processRack: the samples of inBuf[0], inBuf[1]
    outBuf,           \* processRack: the samples of outBuf[0], outBuf[1]
    processed,        \* processRack: the local flag `processed`
    processLog,       \* the plugin->process calls of the current block, by plugin id
    fName,            \* per CarlaPlugin object: what name() returns, a sequence of characters
    sname,            \* getNewUniquePluginName: its static CarlaString
    nameCall,         \* the most recent call of getNewUniquePluginName: its argument
    publishedBy,      \* the control thread whose RemovePlugin action lies in the slot (history)
    executedFor,      \* the control threads, inside removePlugin, whose action was executed (history)
    hk                \* the housekeeping thread: where it is in CarlaEngine::idle

vars == <<options, engineType, running, aboutToClose, maxPluginNumber,
          curPluginCount, plugins, heap, nextAction, mutexLocked,
          threadRunning, lastError, ctl, lastCall, cbLog, rt, crashed, ubSeen,
          optLog, port, events, portRet, fEnabled, inBuf, outBuf, processed, processLog,
          fName, sname, nameCall, publishedBy, executedFor, hk>>

portVars == <<port, events, portRet>>

\* The audio buffers of a rack block and what processRack keeps about it.
blockVars == <<inBuf, outBuf, processed, processLog>>

rackVars == <<fEnabled, blockVars>>

\* The plugins' names and the last unique name asked for.
nameVars == <<fName, sname, nameCall>>

\* Whose removal lies in the post-action slot and whose has been executed.
historyVars == <<publishedBy, executedFor>>

\* The engine's settings and the state of its ports, rack buffers and names.
settingVars == <<options, engineType, running, aboutToClose, maxPluginNumber, optLog, portVars,
                 rackVars, nameVars>>

\* What no operation on the plugin table touches.
engineVars == <<settingVars, historyVars, hk>>

\* The plugin table, the post-action slot and the threads working on them.
tableVars == <<curPluginCount, plugins, heap, nextAction, mutexLocked, threadRunning,
               lastError, ctl, lastCall, cbLog, rt, crashed, ubSeen>>

\* ---------------------------------------------------------------- helpers

\* CarlaEngine::init, the switch on fOptions.processMode.
MaxPluginNumberFor(mode) ==
    CASE mode = "CONTINUOUS_RACK" -> MAX_RACK_PLUGINS
      [] mode = "PATCHBAY" -> MAX_PATCHBAY_PLUGINS
      [] mode = "BRIDGE" -> 1
      [] OTHER -> MAX_DEFAULT_PLUGINS

EmptySlot == [plugin |-> NULL, insPeak |-> ZeroPeak, outsPeak |-> ZeroPeak]

UnusedCell == [state |-> "unused", id |-> 0]

\* A deleted object: its storage holds no fId any more.
DeletedCell == [state |-> "deleted", id |-> 0]

IdleCtl == [pc |-> "idle", id |-> 0, plugin |-> NULL, oldCount |-> 0, i |-> 0]

IdleRt == [pc |-> "top", i |-> 0, plugin |-> NULL]

\* The housekeeping thread outside CarlaEngine::idle.
IdleHk == [pc |-> "wait", i |-> 0, plugin |-> NULL]

NoCall == [op |-> "none", id |-> 0, ret |-> "none"]

\* A `return <int>` in a function declared bool.
IntToBool(n) == n # 0

\* A returned bool as recorded for the caller.
BoolRet(b) == IF b THEN "true" ELSE "false"

IsDead(p) == heap[p].state # "alive"

\* Outcomes of a step that did (ub) or did not run into undefined behaviour.
Crashes(ub) == IF ub THEN {TRUE, FALSE} ELSE {FALSE}

Crash == crashed' = TRUE
         /\ UNCHANGED <<engineVars, curPluginCount, plugins, heap, nextAction,
                        mutexLocked, threadRunning, lastError, ctl, lastCall, cbLog, rt>>

\* kData->thread.stopNow() (CarlaEngineThread, outside this source tree):
\* it returns once the housekeeping thread has left idle().
StopNow == hk.pc = "wait"

\* ------------------------------------------------------------ CarlaMutex
\* kData->nextAction.mutex is a CarlaMutex (utils, outside this source
\* tree): lock() returns once the mutex is free and takes it, so a second
\* lock() of a held mutex waits for an unlock(); unlock() frees it.

CarlaMutexLock(held, heldAfter) == ~held /\ heldAfter = TRUE

CarlaMutexUnlock(held, heldAfter) == heldAfter = FALSE

\* ------------------------------------------------- post-action execution

\* doIdle: reset the opcode (the unlock is the caller's next step).
doIdle(na) == [na EXCEPT !.opcode = "Null"]

\* The loop of doPluginRemove, "move all plugins 1 spot backwards", from
\* index i with the already decremented count cnt.  Reading plugins[i+1]
\* one past the table is undefined; when it does not crash the loop breaks.
\* setId on a deleted object is undefined and leaves no object state.
RECURSIVE ShiftLoopNoSetId(_, _, _, _, _)
\* The loop without plugin->setId(i).
ShiftLoopNoSetId(i, cnt, pl, hp, ub) ==
    IF i >= cnt
    THEN [plugins |-> pl, heap |-> hp, ub |-> ub]
    ELSE IF i + 1 >= maxPluginNumber
    THEN [plugins |-> pl, heap |-> hp, ub |-> TRUE]
    ELSE LET plugin == pl[i + 1].plugin IN
         IF plugin = NULL
         THEN [plugins |-> pl, heap |-> hp, ub |-> ub]
         ELSE ShiftLoopNoSetId(i + 1, cnt,
                               [pl EXCEPT ![i] = [plugin |-> plugin, insPeak |-> ZeroPeak,
                                                  outsPeak |-> ZeroPeak]],
                               hp,
                               ub \/ hp[plugin].state # "alive")

RECURSIVE ShiftLoop(_, _, _, _, _)
ShiftLoop(i, cnt, pl, hp, ub) ==
    IF i >= cnt
    THEN [plugins |-> pl, heap |-> hp, ub |-> ub]
    ELSE IF i + 1 >= maxPluginNumber
    THEN [plugins |-> pl, heap |-> hp, ub |-> TRUE]
    ELSE LET plugin == pl[i + 1].plugin IN
         IF plugin = NULL
         THEN [plugins |-> pl, heap |-> hp, ub |-> ub]
         ELSE ShiftLoop(i + 1, cnt,
                        [pl EXCEPT ![i] = [plugin |-> plugin, insPeak |-> ZeroPeak,
                                           outsPeak |-> ZeroPeak]],
                        IF hp[plugin].state = "alive"
                        THEN [hp EXCEPT ![plugin].id = i] ELSE hp,
                        ub \/ hp[plugin].state # "alive")

\* doPluginRemove up to the reset of the opcode: the new count, table and
\* plugin objects, and whether undefined behaviour was met on the way.
doPluginRemove(id) ==
    LET cnt == (curPluginCount - 1) % UintModulus
        cleared == [plugins EXCEPT ![id].plugin = NULL]
        r == ShiftLoop(id, cnt, cleared, heap, FALSE)
    IN  [count |-> cnt, plugins |-> r.plugins, heap |-> r.heap, ub |-> r.ub]

\* ----------------------------------------------------------- addPlugin

\* The switch on btype and the BINARY_NATIVE case: the configured bridge
\* binary, "" standing for nullptr.
BridgeBinary(btype) ==
    IF btype = "NATIVE" /\ options.bridge_native # ""
    THEN options.bridge_native
    ELSE CASE btype = "POSIX32" -> options.bridge_posix32
           [] btype = "POSIX64" -> options.bridge_posix64
           [] btype = "WIN32" -> options.bridge_win32
           [] btype = "WIN64" -> options.bridge_win64
           [] OTHER -> ""

\* fOptions.preferPluginBridges && bridgeBinary != nullptr.
BridgeWanted(btype) == options.preferPluginBridges /\ BridgeBinary(btype) # ""

\* The least pointer never handed out: the object the constructor creates.
FreshPointer == CHOOSE p \in Pointers :
                   /\ heap[p].state = "unused"
                   /\ \A q \in Pointers : q < p => heap[q].state # "unused"

CanAllocate == \E p \in Pointers : heap[p].state = "unused"

\* The switch on ptype: whether a plugin-format constructor runs and
\* returns an object (loaderOk is the constructor's outcome).
ConstructorReturnsPlugin(ptype, loaderOk) == ptype # "NONE" /\ loaderOk

\* The capacity test off by one.
AtCapacityOffByOne == curPluginCount > maxPluginNumber

\* kData->curPluginCount == kData->maxPluginNumber.
AtCapacity == curPluginCount = maxPluginNumber

\* The slot written without zeroing the peaks.
InstalledSlotKeepPeaks(plugin, old) == [old EXCEPT !.plugin = plugin]

\* The slot addPlugin writes: the plugin, with the four peaks zeroed.
InstalledSlot(plugin, old) == [plugin |-> plugin, insPeak |-> ZeroPeak, outsPeak |-> ZeroPeak]

\* CarlaEngine::addPlugin.
AddPlugin(c, btype, ptype, loaderOk) ==
    /\ ~crashed
    /\ ctl[c].pc = "idle"
    /\ loaderOk => CanAllocate
    /\ LET id == curPluginCount
           bridged == BridgeWanted(btype)
           made == ~bridged /\ ConstructorReturnsPlugin(ptype, loaderOk)
           plugin == FreshPointer
       IN
       IF AtCapacity
       THEN /\ lastError' = ErrMaxReached
            /\ lastCall' = [op |-> "addPlugin", id |-> id, ret |-> "false"]
            /\ cbLog' = <<>>
            /\ UNCHANGED <<curPluginCount, plugins, heap, crashed>>
       ELSE IF bridged /\ options.processMode # "MULTIPLE_CLIENTS"
       THEN /\ lastError' = ErrBridgeMode
            /\ lastCall' = [op |-> "addPlugin", id |-> id, ret |-> BoolRet(IntToBool(-1))]
            /\ cbLog' = <<>>
            /\ UNCHANGED <<curPluginCount, plugins, heap, crashed>>
       ELSE IF bridged /\ engineType # "Jack"
       THEN /\ lastError' = ErrBridgeBackend
            /\ lastCall' = [op |-> "addPlugin", id |-> id, ret |-> BoolRet(IntToBool(-1))]
            /\ cbLog' = <<>>
            /\ UNCHANGED <<curPluginCount, plugins, heap, crashed>>
       ELSE IF ~made
       THEN /\ lastError' = (IF bridged THEN ErrBridgeTodo
                             ELSE IF ptype = "NONE" THEN lastError ELSE ErrLoader)
            /\ lastCall' = [op |-> "addPlugin", id |-> id, ret |-> "false"]
            /\ cbLog' = <<>>
            /\ UNCHANGED <<curPluginCount, plugins, heap, crashed>>
       ELSE IF id >= maxPluginNumber
       THEN \* plugins[id] lies far outside the table
            /\ crashed' = TRUE
            /\ UNCHANGED <<curPluginCount, plugins, heap, lastError, lastCall, cbLog>>
       ELSE /\ heap' = [heap EXCEPT ![plugin] = [state |-> "alive", id |-> id]]
            /\ plugins' = [plugins EXCEPT ![id] = InstalledSlot(plugin, @)]
            /\ curPluginCount' = (curPluginCount + 1) % UintModulus
            /\ cbLog' = <<[action |-> "PLUGIN_ADDED", pluginId |-> id]>>
            /\ lastCall' = [op |-> "addPlugin", id |-> id, ret |-> "true"]
            /\ UNCHANGED <<lastError, crashed>>
    /\ UNCHANGED <<engineVars, ubSeen, nextAction, mutexLocked, threadRunning, ctl, rt>>

\* --------------------------------------------------------- removePlugin

\* removePlugin up to thread.stopNow(): the slot is read and, when it holds
\* a pointer, the plugin's id() is read for the assertion.
RemovePluginBegin(c, id) ==
    /\ ~crashed
    /\ ctl[c].pc = "idle"
    /\ id < maxPluginNumber
    /\ curPluginCount <= maxPluginNumber \/ curPluginCount > UintModulus - MaxUnderflow
    /\ LET plugin == plugins[id].plugin IN
       IF plugin = NULL
       THEN /\ lastError' = ErrNotFound
            /\ lastCall' = [op |-> "removePlugin", id |-> id, ret |-> "false"]
            /\ cbLog' = <<>>
            /\ UNCHANGED <<ctl, threadRunning, crashed>>
       ELSE \E crash \in Crashes(IsDead(plugin)) :
            IF crash
            THEN /\ crashed' = TRUE
                 /\ UNCHANGED <<lastError, ctl, lastCall, cbLog, threadRunning>>
            ELSE /\ StopNow
                 /\ threadRunning' = FALSE
                 /\ ctl' = [ctl EXCEPT ![c] = [@ EXCEPT !.pc = "rp_publish", !.id = id,
                                                        !.plugin = plugin]]
                 /\ lastCall' = [op |-> "removePlugin", id |-> id, ret |-> "none"]
                 /\ cbLog' = <<>>
                 /\ UNCHANGED <<lastError, crashed>>
    /\ ubSeen' = (ubSeen \/ (plugins[id].plugin # NULL /\ IsDead(plugins[id].plugin)))
    /\ UNCHANGED <<engineVars, curPluginCount, plugins, heap, nextAction, mutexLocked, rt>>

\* nextAction.pluginId = id; nextAction.opcode = EnginePostActionRemovePlugin.
RemovePluginPublish(c) ==
    /\ ~crashed
    /\ ctl[c].pc = "rp_publish"
    /\ nextAction' = [opcode |-> "RemovePlugin", pluginId |-> ctl[c].id]
    /\ ctl' = [ctl EXCEPT ![c].pc = "rp_lock"]
    /\ publishedBy' = c
    /\ executedFor' = executedFor \ {c}
    /\ UNCHANGED <<hk, settingVars, ubSeen, curPluginCount, plugins, heap, mutexLocked, threadRunning,
                   lastError, lastCall, cbLog, rt, crashed>>

\* The first nextAction.mutex.lock() and the test of isRunning().
RemovePluginLock(c) ==
    /\ ~crashed
    /\ ctl[c].pc = "rp_lock"
    /\ CarlaMutexLock(mutexLocked, mutexLocked')
    /\ ctl' = [ctl EXCEPT ![c].pc = IF running THEN "rp_wait" ELSE "rp_sync"]
    /\ UNCHANGED <<engineVars, ubSeen, curPluginCount, plugins, heap, nextAction, threadRunning,
                   lastError, lastCall, cbLog, rt, crashed>>

\* The second lock(): "block wait for unlock on proccessing side".
RemovePluginWait(c) ==
    /\ ~crashed
    /\ ctl[c].pc = "rp_wait"
    /\ CarlaMutexLock(mutexLocked, mutexLocked')
    /\ ctl' = [ctl EXCEPT ![c].pc = "rp_delete"]
    /\ UNCHANGED <<engineVars, ubSeen, curPluginCount, plugins, heap, nextAction, threadRunning,
                   lastError, lastCall, cbLog, rt, crashed>>

\* Engine not running: doPluginRemove(kData, false) on the control thread.
RemovePluginSync(c) ==
    /\ ~crashed
    /\ ctl[c].pc = "rp_sync"
    /\ LET r == doPluginRemove(nextAction.pluginId) IN
       \E crash \in Crashes(r.ub) :
       IF crash
       THEN Crash
       ELSE /\ curPluginCount' = r.count
            /\ plugins' = r.plugins
            /\ heap' = r.heap
            /\ nextAction' = [nextAction EXCEPT !.opcode = "Null"]
            /\ ctl' = [ctl EXCEPT ![c].pc = "rp_delete"]
            /\ executedFor' = executedFor \cup {publishedBy}
            /\ publishedBy' = "none"
            /\ UNCHANGED <<hk, settingVars, mutexLocked, threadRunning, lastError,
                           lastCall, cbLog, rt, crashed>>
    /\ ubSeen' = (ubSeen \/ doPluginRemove(nextAction.pluginId).ub)

\* delete plugin.
RemovePluginDelete(c) ==
    /\ ~crashed
    /\ ctl[c].pc = "rp_delete"
    /\ \E crash \in Crashes(IsDead(ctl[c].plugin)) :
       IF crash
       THEN Crash
       ELSE /\ heap' = [heap EXCEPT ![ctl[c].plugin] = DeletedCell]
            /\ ctl' = [ctl EXCEPT ![c].pc = "rp_unlock"]
            /\ UNCHANGED <<engineVars, curPluginCount, plugins, nextAction, mutexLocked,
                           threadRunning, lastError, lastCall, cbLog, rt, crashed>>
    /\ ubSeen' = (ubSeen \/ IsDead(ctl[c].plugin))

\* The housekeeping thread started whatever the state of the engine.
RestartedAlways == TRUE

\* if (isRunning() && ! kData->aboutToClose) kData->thread.startNow().
RestartedThread == IF running /\ ~aboutToClose THEN TRUE ELSE threadRunning

\* mutex.unlock(), the restart of the housekeeping thread, the callback
\* and return true.
RemovePluginEnd(c) ==
    /\ ~crashed
    /\ ctl[c].pc = "rp_unlock"
    /\ CarlaMutexUnlock(mutexLocked, mutexLocked')
    /\ threadRunning' = RestartedThread
    /\ cbLog' = <<[action |-> "PLUGIN_REMOVED", pluginId |-> ctl[c].id]>>
    /\ ctl' = [ctl EXCEPT ![c] = IdleCtl]
    /\ lastCall' = [op |-> "removePlugin", id |-> ctl[c].id, ret |-> "true"]
    /\ executedFor' = executedFor \ {c}
    /\ UNCHANGED <<hk, settingVars, publishedBy, ubSeen, curPluginCount, plugins, heap, nextAction,
                   lastError, rt, crashed>>

\* ----------------------------------------------------- removeAllPlugins

\* thread.stopNow(); oldCount = curPluginCount; curPluginCount = 0.
RemoveAllPluginsBegin(c) ==
    /\ ~crashed
    /\ ctl[c].pc = "idle"
    /\ StopNow
    /\ threadRunning' = FALSE
    /\ curPluginCount' = 0
    /\ ctl' = [ctl EXCEPT ![c] = [@ EXCEPT !.pc = "ra_publish", !.oldCount = curPluginCount,
                                           !.i = 0]]
    /\ lastCall' = [op |-> "removeAllPlugins", id |-> 0, ret |-> "none"]
    /\ cbLog' = <<>>
    /\ UNCHANGED <<engineVars, ubSeen, plugins, heap, nextAction, mutexLocked, lastError, rt, crashed>>

\* waitForProccessEnd: nextAction.pluginId = 0; opcode = EnginePostActionIdle.
WaitForProccessEndPublish(c) ==
    /\ ~crashed
    /\ ctl[c].pc = "ra_publish"
    /\ nextAction' = [opcode |-> "Idle", pluginId |-> 0]
    /\ ctl' = [ctl EXCEPT ![c].pc = "ra_lock"]
    /\ UNCHANGED <<engineVars, ubSeen, curPluginCount, plugins, heap, mutexLocked, threadRunning,
                   lastError, lastCall, cbLog, rt, crashed>>

\* waitForProccessEnd: the first lock() and the test of isRunning().
WaitForProccessEndLock(c) ==
    /\ ~crashed
    /\ ctl[c].pc = "ra_lock"
    /\ CarlaMutexLock(mutexLocked, mutexLocked')
    /\ ctl' = [ctl EXCEPT ![c].pc = IF running THEN "ra_wait" ELSE "ra_sync"]
    /\ UNCHANGED <<engineVars, ubSeen, curPluginCount, plugins, heap, nextAction, threadRunning,
                   lastError, lastCall, cbLog, rt, crashed>>

\* waitForProccessEnd: the second lock(), waiting for the processing side.
WaitForProccessEndWait(c) ==
    /\ ~crashed
    /\ ctl[c].pc = "ra_wait"
    /\ CarlaMutexLock(mutexLocked, mutexLocked')
    /\ ctl' = [ctl EXCEPT ![c].pc = "ra_unlock"]
    /\ UNCHANGED <<engineVars, ubSeen, curPluginCount, plugins, heap, nextAction, threadRunning,
                   lastError, lastCall, cbLog, rt, crashed>>

\* waitForProccessEnd, engine not running: doIdle(kData, false).
WaitForProccessEndSync(c) ==
    /\ ~crashed
    /\ ctl[c].pc = "ra_sync"
    /\ nextAction' = doIdle(nextAction)
    /\ ctl' = [ctl EXCEPT ![c].pc = "ra_unlock"]
    /\ UNCHANGED <<engineVars, ubSeen, curPluginCount, plugins, heap, mutexLocked, threadRunning,
                   lastError, lastCall, cbLog, rt, crashed>>

\* waitForProccessEnd: the final unlock().
WaitForProccessEndUnlock(c) ==
    /\ ~crashed
    /\ ctl[c].pc = "ra_unlock"
    /\ CarlaMutexUnlock(mutexLocked, mutexLocked')
    /\ ctl' = [ctl EXCEPT ![c].pc = "ra_loop"]
    /\ UNCHANGED <<engineVars, ubSeen, curPluginCount, plugins, heap, nextAction, threadRunning,
                   lastError, lastCall, cbLog, rt, crashed>>

\* One iteration of the loop over [0, oldCount): delete the plugin and clear
\* the slot; after the loop, restart the housekeeping thread and return.
RemoveAllPluginsLoop(c) ==
    /\ ~crashed
    /\ ctl[c].pc = "ra_loop"
    /\ LET i == ctl[c].i IN
       IF i >= ctl[c].oldCount
       THEN /\ threadRunning' = RestartedThread
            /\ ctl' = [ctl EXCEPT ![c] = IdleCtl]
            /\ lastCall' = [op |-> "removeAllPlugins", id |-> 0, ret |-> "void"]
            /\ UNCHANGED <<plugins, heap, crashed>>
       ELSE IF i >= maxPluginNumber
       THEN /\ crashed' = TRUE
            /\ UNCHANGED <<plugins, heap, threadRunning, ctl, lastCall>>
       ELSE LET plugin == plugins[i].plugin IN
            \E crash \in Crashes(plugin # NULL /\ IsDead(plugin)) :
            IF crash
            THEN /\ crashed' = TRUE
                 /\ UNCHANGED <<plugins, heap, threadRunning, ctl, lastCall>>
            ELSE /\ heap' = IF plugin = NULL THEN heap
                            ELSE [heap EXCEPT ![plugin] = DeletedCell]
                 /\ plugins' = [plugins EXCEPT ![i] = EmptySlot]
                 /\ ctl' = [ctl EXCEPT ![c].i = i + 1]
                 /\ UNCHANGED <<threadRunning, lastCall, crashed>>
    /\ ubSeen' = (ubSeen \/ (/\ ctl[c].i < ctl[c].oldCount
                              /\ ctl[c].i < maxPluginNumber
                              /\ plugins[ctl[c].i].plugin # NULL
                              /\ IsDead(plugins[ctl[c].i].plugin)))
    /\ UNCHANGED <<engineVars, curPluginCount, nextAction, mutexLocked, lastError, cbLog, rt>>

\* ---------------------------------------------------------------- close

\* nextAction.ready(): the post-action mutex is taken and released at once,
\* which waits for a holder to let go of it.
NextActionReady == ~mutexLocked

\* CarlaEngine::close: ready(), thread.stopNow(), the OSC teardown,
\* aboutToClose = true, curPluginCount = 0, maxPluginNumber = 0,
\* delete[] kData->plugins (the array of slots; the CarlaPlugin objects the
\* slots point to are not touched), plugins = nullptr, return true.
Close(c) ==
    /\ ~crashed
    /\ ctl[c].pc = "idle"
    /\ NextActionReady
    /\ StopNow
    /\ threadRunning' = FALSE
    /\ aboutToClose' = TRUE
    /\ curPluginCount' = 0
    /\ maxPluginNumber' = 0
    /\ plugins' = <<>>
    /\ lastCall' = [op |-> "close", id |-> 0, ret |-> "true"]
    /\ cbLog' = <<>>
    /\ UNCHANGED <<hk, historyVars, options, engineType, running, optLog, portVars, rackVars, nameVars, ubSeen,
                   heap, nextAction, mutexLocked, lastError, ctl, rt, crashed>>

\* CarlaEngine::setAboutToClose.
SetAboutToClose(c) ==
    /\ ~crashed
    /\ ctl[c].pc = "idle"
    /\ ~aboutToClose
    /\ aboutToClose' = TRUE
    /\ UNCHANGED <<hk, historyVars, options, engineType, running, maxPluginNumber, optLog, portVars,
                   rackVars, nameVars, tableVars>>

\* ------------------------------------------------------------- setPeaks

\* CarlaEngine::setPeaks.
SetPeaks(pluginId, inPeaks, outPeaks) ==
    /\ ~crashed
    /\ running
    /\ pluginId < maxPluginNumber
    /\ plugins' = [plugins EXCEPT ![pluginId] = [@ EXCEPT !.insPeak = inPeaks,
                                                          !.outsPeak = outPeaks]]
    /\ UNCHANGED <<engineVars, ubSeen, curPluginCount, heap, nextAction, mutexLocked, threadRunning,
                   lastError, ctl, lastCall, cbLog, rt, crashed>>

\* ------------------------------------------------------ the audio thread

\* proccessPendingEvents: the switch on nextAction.opcode, with doIdle or
\* doPluginRemove up to the reset of the opcode.
ProccessPendingEvents ==
    /\ ~crashed
    /\ running
    /\ rt.pc = "top"
    /\ CASE nextAction.opcode = "Null" ->
              /\ rt' = [rt EXCEPT !.pc = "rack", !.i = 0]
              /\ UNCHANGED <<curPluginCount, plugins, heap, nextAction, crashed>>
         [] nextAction.opcode = "Idle" ->
              /\ nextAction' = doIdle(nextAction)
              /\ rt' = [rt EXCEPT !.pc = "unlock"]
              /\ UNCHANGED <<curPluginCount, plugins, heap, crashed>>
         [] nextAction.opcode = "RemovePlugin" ->
              LET r == doPluginRemove(nextAction.pluginId) IN
              \E crash \in Crashes(r.ub) :
              IF crash
              THEN /\ crashed' = TRUE
                   /\ UNCHANGED <<curPluginCount, plugins, heap, nextAction, rt>>
              ELSE /\ curPluginCount' = r.count
                   /\ plugins' = r.plugins
                   /\ heap' = r.heap
                   /\ nextAction' = [nextAction EXCEPT !.opcode = "Null"]
                   /\ rt' = [rt EXCEPT !.pc = "unlock"]
                   /\ UNCHANGED crashed
    /\ ubSeen' = (ubSeen \/ (/\ nextAction.opcode = "RemovePlugin"
                              /\ doPluginRemove(nextAction.pluginId).ub))
    /\ IF nextAction.opcode = "RemovePlugin" /\ nextAction'.opcode = "Null"
       THEN /\ executedFor' = executedFor \cup {publishedBy}
            /\ publishedBy' = "none"
       ELSE UNCHANGED historyVars
    /\ UNCHANGED <<hk, settingVars, mutexLocked, threadRunning, lastError, ctl, lastCall, cbLog>>

\* The audio thread taking the post-action mutex where the source releases it.
PostActionLockInstead ==
    /\ ~crashed
    /\ running
    /\ rt.pc = "unlock"
    /\ CarlaMutexLock(mutexLocked, mutexLocked')
    /\ rt' = [rt EXCEPT !.pc = "rack", !.i = 0]
    /\ UNCHANGED <<engineVars, ubSeen, curPluginCount, plugins, heap, nextAction, threadRunning,
                   lastError, ctl, lastCall, cbLog, crashed>>

\* The nextAction.mutex.unlock() that ends doIdle and doPluginRemove on the
\* audio thread; the block then goes on to processRack.
PostActionUnlock ==
    /\ ~crashed
    /\ running
    /\ rt.pc = "unlock"
    /\ CarlaMutexUnlock(mutexLocked, mutexLocked')
    /\ rt' = [rt EXCEPT !.pc = "rack", !.i = 0]
    /\ UNCHANGED <<engineVars, ubSeen, curPluginCount, plugins, heap, nextAction, threadRunning,
                   lastError, ctl, lastCall, cbLog, crashed>>

\* A channel of `frames` samples all equal to v.
Channel(v) == [j \in 1..Frames |-> v]

\* carla_zeroFloat on both channels.
Silence == <<Channel(0), Channel(0)>>

\* std::memcpy(outBuf[c], inBuf[c], sizeof(float)*frames) for both channels.
CopyInputs(in) == <<in[1], in[2]>>

\* The tail of processRack leaving the outputs as the loop left them.
RackOutputsNoCopy(done, in, out) == out

\* The tail of processRack: if (! processed) copy inputs over outputs.
RackOutputs(done, in, out) == IF ~done THEN CopyInputs(in) ELSE out

\* processRack: on entry (i = 0) the outputs are zeroed and processed =
\* false; then the loop test and getPluginUnchecked(i); after the loop the
\* inputs are copied over the outputs unless a plugin was processed, which
\* ends the block.
ProcessRackFetch ==
    /\ ~crashed
    /\ running
    /\ rt.pc = "rack"
    /\ LET entry == rt.i = 0
           out == IF entry THEN Silence ELSE outBuf
           done == IF entry THEN FALSE ELSE processed
       IN
       IF rt.i >= curPluginCount
       THEN /\ rt' = IdleRt
            /\ outBuf' = RackOutputs(done, inBuf, out)
            /\ processed' = done
            /\ processLog' = IF entry THEN <<>> ELSE processLog
            /\ UNCHANGED crashed
       ELSE IF rt.i >= maxPluginNumber
       THEN /\ crashed' = TRUE
            /\ UNCHANGED <<rt, outBuf, processed, processLog>>
       ELSE /\ rt' = [rt EXCEPT !.pc = "use", !.plugin = plugins[rt.i].plugin]
            /\ outBuf' = out
            /\ processed' = done
            /\ processLog' = IF entry THEN <<>> ELSE processLog
            /\ UNCHANGED crashed
    /\ UNCHANGED <<hk, historyVars, options, engineType, running, aboutToClose, maxPluginNumber, optLog, portVars,
                   nameVars, fEnabled, inBuf, ubSeen, curPluginCount, plugins, heap, nextAction,
                   mutexLocked, threadRunning, lastError, ctl, lastCall, cbLog>>

\* What plugin->enabled() can return: the flag of a live object, anything
\* when the object has been deleted.
EnabledReads(plugin) == IF IsDead(plugin) THEN BOOLEAN ELSE {fEnabled[plugin]}

\* The loop body of processRack: a null or disabled plugin is skipped by
\* `continue`, otherwise processed = true.  (The call of plugin->process
\* lies in the region the preprocessor removes, lines 1335-1415.)
MarksProcessed(plugin, en) == plugin # NULL /\ en

\* processRack: plugin == nullptr || ! plugin->enabled(), the use of the
\* plugin object in this iteration, processed = true, and i++.
ProcessRackUse ==
    /\ ~crashed
    /\ running
    /\ rt.pc = "use"
    /\ \E crash \in Crashes(rt.plugin # NULL /\ IsDead(rt.plugin)) :
       IF crash
       THEN /\ crashed' = TRUE
            /\ UNCHANGED <<rt, processed>>
       ELSE /\ rt' = [rt EXCEPT !.pc = "rack", !.i = rt.i + 1, !.plugin = NULL]
            /\ \E en \in (IF rt.plugin = NULL THEN {FALSE} ELSE EnabledReads(rt.plugin)) :
                  processed' = (processed \/ MarksProcessed(rt.plugin, en))
            /\ UNCHANGED crashed
    /\ ubSeen' = (ubSeen \/ (rt.plugin # NULL /\ IsDead(rt.plugin)))
    /\ UNCHANGED <<hk, historyVars, options, engineType, running, aboutToClose, maxPluginNumber, optLog, portVars,
                   nameVars, fEnabled, inBuf, outBuf, processLog, curPluginCount, plugins, heap,
                   nextAction, mutexLocked, threadRunning, lastError, ctl, lastCall, cbLog>>

\* The driver's audio callback handing the buffers of the next block to
\* the engine: the input samples, and output buffers holding whatever the
\* previous use left in them.
DriverBlock(in, out) ==
    /\ ~crashed
    /\ running
    /\ rt.pc = "top"
    /\ inBuf' = in
    /\ outBuf' = out
    /\ <<inBuf', outBuf'>> # <<inBuf, outBuf>>
    /\ UNCHANGED <<hk, historyVars, options, engineType, running, aboutToClose, maxPluginNumber, optLog, portVars,
                   nameVars, fEnabled, processed, processLog, tableVars>>

\* CarlaPlugin::setEnabled, called by the control surface between blocks.
SetEnabled(plugin, yesNo) ==
    /\ ~crashed
    /\ rt.pc = "top"
    /\ heap[plugin].state = "alive"
    /\ fEnabled[plugin] # yesNo
    /\ fEnabled' = [fEnabled EXCEPT ![plugin] = yesNo]
    /\ UNCHANGED <<hk, historyVars, options, engineType, running, aboutToClose, maxPluginNumber, optLog, portVars,
                   nameVars, blockVars, tableVars>>

\* ----------------------------------------------- the housekeeping thread

\* The housekeeping thread, while started, calls CarlaEngine::idle: i = 0.
IdleBegin ==
    /\ ~crashed
    /\ threadRunning
    /\ hk.pc = "wait"
    /\ hk' = [pc |-> "loop", i |-> 0, plugin |-> NULL]
    /\ UNCHANGED <<settingVars, historyVars, tableVars>>

\* idle: the loop test i < curPluginCount and the read of plugins[i].plugin;
\* a null plugin is skipped, and the call returns after the loop.
IdleFetch ==
    /\ ~crashed
    /\ hk.pc = "loop"
    /\ IF hk.i >= curPluginCount
       THEN hk' = IdleHk /\ UNCHANGED crashed
       ELSE IF hk.i >= maxPluginNumber
       THEN crashed' = TRUE /\ UNCHANGED hk
       ELSE /\ hk' = IF plugins[hk.i].plugin = NULL
                     THEN [hk EXCEPT !.i = hk.i + 1]
                     ELSE [hk EXCEPT !.pc = "enabled", !.plugin = plugins[hk.i].plugin]
            /\ UNCHANGED crashed
    /\ UNCHANGED <<settingVars, historyVars, curPluginCount, plugins, heap, nextAction, mutexLocked,
                   threadRunning, lastError, ctl, lastCall, cbLog, rt, ubSeen>>

\* idle: plugin->enabled().
IdleEnabled ==
    /\ ~crashed
    /\ hk.pc = "enabled"
    /\ \E crash \in Crashes(IsDead(hk.plugin)), yes \in EnabledReads(hk.plugin) :
          IF crash
          THEN crashed' = TRUE /\ UNCHANGED hk
          ELSE /\ hk' = IF yes THEN [hk EXCEPT !.pc = "gui"]
                        ELSE [hk EXCEPT !.pc = "loop", !.i = hk.i + 1, !.plugin = NULL]
               /\ UNCHANGED crashed
    /\ ubSeen' = (ubSeen \/ IsDead(hk.plugin))
    /\ UNCHANGED <<settingVars, historyVars, curPluginCount, plugins, heap, nextAction, mutexLocked,
                   threadRunning, lastError, ctl, lastCall, cbLog, rt>>

\* idle: plugin->idleGui(), then i++.
IdleGui ==
    /\ ~crashed
    /\ hk.pc = "gui"
    /\ \E crash \in Crashes(IsDead(hk.plugin)) :
          IF crash
          THEN crashed' = TRUE /\ UNCHANGED hk
          ELSE /\ hk' = [hk EXCEPT !.pc = "loop", !.i = hk.i + 1, !.plugin = NULL]
               /\ UNCHANGED crashed
    /\ ubSeen' = (ubSeen \/ IsDead(hk.plugin))
    /\ UNCHANGED <<settingVars, historyVars, curPluginCount, plugins, heap, nextAction, mutexLocked,
                   threadRunning, lastError, ctl, lastCall, cbLog, rt>>

HousekeepingStep == IdleBegin \/ IdleFetch \/ IdleEnabled \/ IdleGui

\* ------------------------------------------------------------- setOption

ErrOptionRunning == "Cannot set this option while engine is running!"
ErrOptionInvalid == "invalid value"

\* qCritical("CarlaEngine::setOption(%s, %i, \"%s\") - <text>", ...).
Critical(option, value, valueStr, text) ==
    [option |-> option, value |-> value, valueStr |-> valueStr, text |-> text]

\* The options setOption knows in a build with WANT_DSSI.
OptionsTypes ==
    {"PROCESS_NAME", "PROCESS_MODE", "MAX_PARAMETERS", "PREFERRED_BUFFER_SIZE",
     "PREFERRED_SAMPLE_RATE", "FORCE_STEREO", "USE_DSSI_VST_CHUNKS",
     "PREFER_PLUGIN_BRIDGES", "PREFER_UI_BRIDGES", "OSC_UI_TIMEOUT",
     "PATH_BRIDGE_NATIVE", "PATH_BRIDGE_POSIX32", "PATH_BRIDGE_POSIX64",
     "PATH_BRIDGE_WIN32", "PATH_BRIDGE_WIN64"}

\* The cases of the switch that begin with the running check, one of them
\* lacking it.
RunningCheckedForgotten ==
    {"PROCESS_MODE", "MAX_PARAMETERS", "PREFERRED_BUFFER_SIZE", "PREFERRED_SAMPLE_RATE",
     "FORCE_STEREO", "USE_DSSI_VST_CHUNKS", "PREFER_PLUGIN_BRIDGES", "PREFER_UI_BRIDGES"}

\* The cases of the switch that begin with CARLA_ENGINE_SET_OPTION_RUNNING_CHECK.
RunningChecked ==
    {"PROCESS_MODE", "MAX_PARAMETERS", "PREFERRED_BUFFER_SIZE", "PREFERRED_SAMPLE_RATE",
     "FORCE_STEREO", "USE_DSSI_VST_CHUNKS", "PREFER_PLUGIN_BRIDGES", "PREFER_UI_BRIDGES",
     "OSC_UI_TIMEOUT"}

\* The running check testing the opposite.
RunningCheckInverted == ~running

\* CARLA_ENGINE_SET_OPTION_RUNNING_CHECK: if (isRunning()) return qCritical(...).
CARLA_ENGINE_SET_OPTION_RUNNING_CHECK == running

\* The ProcessMode enumeration: PROCESS_MODE_SINGLE_CLIENT = 0 ..
\* PROCESS_MODE_PATCHBAY = 3, PROCESS_MODE_BRIDGE = 4.
ProcessModeValue(mode) ==
    CASE mode = "SINGLE_CLIENT" -> 0
      [] mode = "MULTIPLE_CLIENTS" -> 1
      [] mode = "CONTINUOUS_RACK" -> 2
      [] mode = "PATCHBAY" -> 3
      [] mode = "BRIDGE" -> 4

\* static_cast<ProcessMode>(value).
ProcessModeOf(value) == CHOOSE mode \in ProcessModes : ProcessModeValue(mode) = value

\* static_cast<uint>(value).
ToUint(value) == value % UintModulus

\* The switch of setOption once the running check has let the call pass:
\* the options afterwards and the message logged, if any.
ApplyOption(opts, option, value, valueStr) ==
    CASE option = "PROCESS_MODE" ->
            IF value < ProcessModeValue("SINGLE_CLIENT") \/ value > ProcessModeValue("PATCHBAY")
            THEN [options |-> opts,
                  log |-> <<Critical(option, value, valueStr, ErrOptionInvalid)>>]
            ELSE [options |-> [opts EXCEPT !.processMode = ProcessModeOf(value)], log |-> <<>>]
      [] option = "MAX_PARAMETERS" ->
            IF value < 0
            THEN [options |-> opts, log |-> <<>>]
            ELSE [options |-> [opts EXCEPT !.maxParameters = ToUint(value)], log |-> <<>>]
      [] option = "PREFERRED_BUFFER_SIZE" ->
            [options |-> [opts EXCEPT !.preferredBufferSize = ToUint(value)], log |-> <<>>]
      [] option = "PREFERRED_SAMPLE_RATE" ->
            [options |-> [opts EXCEPT !.preferredSampleRate = ToUint(value)], log |-> <<>>]
      [] option = "FORCE_STEREO" ->
            [options |-> [opts EXCEPT !.forceStereo = (value # 0)], log |-> <<>>]
      [] option = "USE_DSSI_VST_CHUNKS" ->
            [options |-> [opts EXCEPT !.useDssiVstChunks = (value # 0)], log |-> <<>>]
      [] option = "PREFER_PLUGIN_BRIDGES" ->
            [options |-> [opts EXCEPT !.preferPluginBridges = (value # 0)], log |-> <<>>]
      [] option = "PREFER_UI_BRIDGES" ->
            [options |-> [opts EXCEPT !.preferUiBridges = (value # 0)], log |-> <<>>]
      [] option = "OSC_UI_TIMEOUT" ->
            [options |-> [opts EXCEPT !.oscUiTimeout = ToUint(value)], log |-> <<>>]
      [] option = "PATH_BRIDGE_NATIVE" ->
            [options |-> [opts EXCEPT !.bridge_native = valueStr], log |-> <<>>]
      [] option = "PATH_BRIDGE_POSIX32" ->
            [options |-> [opts EXCEPT !.bridge_posix32 = valueStr], log |-> <<>>]
      [] option = "PATH_BRIDGE_POSIX64" ->
            [options |-> [opts EXCEPT !.bridge_posix64 = valueStr], log |-> <<>>]
      [] option = "PATH_BRIDGE_WIN32" ->
            [options |-> [opts EXCEPT !.bridge_win32 = valueStr], log |-> <<>>]
      [] option = "PATH_BRIDGE_WIN64" ->
            [options |-> [opts EXCEPT !.bridge_win64 = valueStr], log |-> <<>>]
      [] OTHER -> \* OPTION_PROCESS_NAME: carla_setprocname(valueStr)
            [options |-> opts, log |-> <<>>]

\* CarlaEngine::setOption.  It returns void and never calls setLastError.
SetOption(option, value, valueStr) ==
    /\ ~crashed
    /\ IF option \in RunningChecked /\ CARLA_ENGINE_SET_OPTION_RUNNING_CHECK
       THEN /\ optLog' = <<Critical(option, value, valueStr, ErrOptionRunning)>>
            /\ UNCHANGED options
       ELSE /\ options' = ApplyOption(options, option, value, valueStr).options
            /\ optLog' = ApplyOption(options, option, value, valueStr).log
    /\ UNCHANGED <<hk, historyVars, engineType, running, aboutToClose, maxPluginNumber, portVars, rackVars,
                   nameVars, tableVars>>

\* ----------------------------------------------------- CarlaEngineEventPort
\* An EngineEvent: type, time, channel and the control or MIDI payload.  A
\* control value is a double in the source; here it is counted in tenths, so
\* 10 is 1.0 and 11 is the least value above 1.0.

NoCtrl == [type |-> "Null", param |-> 0, value |-> 0]

NoMidi == [port |-> 0, data |-> <<0, 0, 0>>, size |-> 0]

\* static const EngineEvent kFallbackEngineEvent: a cleared event.
kFallbackEngineEvent ==
    [type |-> "Null", time |-> 0, channel |-> 0, ctrl |-> NoCtrl, midi |-> NoMidi]

\* A freshly allocated or zeroed array of n events.
ZeroedEvents(n) == [i \in 0..(n - 1) |-> kFallbackEngineEvent]

\* What a read one past the array's end would hand back.
OutsideEvent ==
    [type |-> "Outside", time |-> 0, channel |-> 0, ctrl |-> NoCtrl, midi |-> NoMidi]

\* events[i].
ReadEntry(evs, i) == IF i \in DOMAIN evs THEN evs[i] ELSE OutsideEvent

\* The initializer of kMaxEventCount.
MaxEventCountFor(mode) ==
    IF mode = "CONTINUOUS_RACK" THEN RACK_EVENT_COUNT ELSE PATCHBAY_EVENT_COUNT

\* The constructor: in patchbay mode the port allocates its own array.
CarlaEngineEventPort(isInput, mode) ==
    [kIsInput |-> isInput, kProcessMode |-> mode,
     kMaxEventCount |-> MaxEventCountFor(mode),
     fBuffer |-> IF mode = "PATCHBAY" THEN "own" ELSE "nullptr"]

\* The array behind the port when it is constructed: its own array in
\* patchbay mode, the engine's rack buffer for its direction in rack mode,
\* none otherwise.
StorageFor(mode) ==
    CASE mode = "PATCHBAY" -> ZeroedEvents(PATCHBAY_EVENT_COUNT)
      [] mode = "CONTINUOUS_RACK" -> ZeroedEvents(RACK_EVENT_COUNT)
      [] OTHER -> ZeroedEvents(0)

\* CarlaEngine::getRackEventBuffer of the base engine.
getRackEventBuffer(isInput) == "nullptr"

\* getRackEventBuffer of an engine back-end: the engine-owned rack buffer
\* for the requested direction.
DriverRackEventBuffer(isInput) == "rack"

Engines == {"nullptr", "base", "driver"}

UsesEvents(mode) == mode = "CONTINUOUS_RACK" \/ mode = "PATCHBAY"

NoRead == [op |-> "none", index |-> 0, count |-> 0, event |-> kFallbackEngineEvent]

\* CarlaEngineEventPort::initBuffer.
InitBuffer(engine) ==
    /\ IF engine = "nullptr"
       THEN UNCHANGED <<port, events>>
       ELSE IF port.kProcessMode = "CONTINUOUS_RACK"
       THEN /\ port' = [port EXCEPT !.fBuffer =
                            IF engine = "base" THEN getRackEventBuffer(port.kIsInput)
                            ELSE DriverRackEventBuffer(port.kIsInput)]
            /\ UNCHANGED events
       ELSE IF port.kProcessMode = "PATCHBAY" /\ ~port.kIsInput
       THEN /\ events' = ZeroedEvents(PATCHBAY_EVENT_COUNT)
            /\ UNCHANGED port
       ELSE UNCHANGED <<port, events>>
    /\ portRet' = NoRead
    /\ UNCHANGED <<hk, historyVars, options, engineType, running, aboutToClose, maxPluginNumber, optLog,
                   rackVars, nameVars, tableVars>>

\* The loop going on past a Null entry instead of breaking.
CountLoopToEnd(evs, i, count, max) == IF i >= max THEN count ELSE count + (max - i)

RECURSIVE CountLoop(_, _, _, _)
\* The loop of getEventCount: for (i = 0; i < kMaxEventCount; i++, count++).
CountLoop(evs, i, count, max) ==
    IF i >= max THEN count
    ELSE IF ReadEntry(evs, i).type = "Null" THEN count
    ELSE CountLoop(evs, i + 1, count + 1, max)

\* getEventCount without the test of kIsInput.
getEventCountAnyPort(p, evs) ==
    IF p.fBuffer = "nullptr" THEN 0
    ELSE IF UsesEvents(p.kProcessMode) THEN CountLoop(evs, 0, 0, p.kMaxEventCount)
    ELSE 0

\* CarlaEngineEventPort::getEventCount.
getEventCount(p, evs) ==
    IF ~p.kIsInput THEN 0
    ELSE IF p.fBuffer = "nullptr" THEN 0
    ELSE IF UsesEvents(p.kProcessMode) THEN CountLoop(evs, 0, 0, p.kMaxEventCount)
    ELSE 0

\* The bounds test of getEvent, off by one.
IndexOutOfRangeOffByOne(index, max) == index > max

\* index >= kMaxEventCount.
IndexOutOfRange(index, max) == index >= max

\* CarlaEngineEventPort::getEvent.
getEvent(p, evs, index) ==
    IF ~p.kIsInput THEN kFallbackEngineEvent
    ELSE IF p.fBuffer = "nullptr" THEN kFallbackEngineEvent
    ELSE IF IndexOutOfRange(index, p.kMaxEventCount) THEN kFallbackEngineEvent
    ELSE IF UsesEvents(p.kProcessMode) THEN ReadEntry(evs, index)
    ELSE kFallbackEngineEvent

\* The write loop overwriting the last entry of a full buffer.
WriteLoopOverwriteFull(evs, i, max, ev) ==
    LET nulls == {j \in i..(max - 1) : evs[j].type = "Null"} IN
    IF nulls # {} THEN [evs EXCEPT ![CHOOSE j \in nulls : \A k \in nulls : j <= k] = ev]
    ELSE IF max > i THEN [evs EXCEPT ![max - 1] = ev]
    ELSE evs

\* The write loop without the test for a Null slot.
WriteLoopAnySlot(evs, i, max, ev) ==
    IF i >= max THEN evs ELSE [evs EXCEPT ![i] = ev]

RECURSIVE WriteLoop(_, _, _, _)
\* The loop of writeControlEvent and writeMidiEvent: the first Null slot is
\* filled; a full buffer is left as it is (qWarning "buffer full").
WriteLoop(evs, i, max, ev) ==
    IF i >= max THEN evs
    ELSE IF evs[i].type # "Null" THEN WriteLoop(evs, i + 1, max, ev)
    ELSE [evs EXCEPT ![i] = ev]

\* The fields writeControlEvent stores.
ControlEvent(time, channel, type, param, value) ==
    [type |-> "Control", time |-> time, channel |-> channel,
     ctrl |-> [type |-> type, param |-> param, value |-> value], midi |-> NoMidi]

\* The fields writeMidiEvent stores.
MidiEvent(time, channel, mport, data, size) ==
    [type |-> "Midi", time |-> time, channel |-> channel, ctrl |-> NoCtrl,
     midi |-> [port |-> mport, data |-> data, size |-> size]]

\* CarlaEngineEventPort::writeControlEvent: the array afterwards.  The
\* assertions on value and on a bank-select parameter only report.
writeControlEvent(p, evs, time, channel, type, param, value) ==
    IF p.kIsInput THEN evs
    ELSE IF p.fBuffer = "nullptr" THEN evs
    ELSE IF type = "Null" THEN evs
    ELSE IF channel >= MAX_MIDI_CHANNELS THEN evs
    ELSE IF UsesEvents(p.kProcessMode)
    THEN WriteLoop(evs, 0, p.kMaxEventCount, ControlEvent(time, channel, type, param, value))
    ELSE evs

\* The size test of writeMidiEvent, off by one.
MidiSizeTooLargeOffByOne(size) == size > 4

\* size > 3.
MidiSizeTooLarge(size) == size > 3

\* CarlaEngineEventPort::writeMidiEvent: the array afterwards.  dataNull
\* stands for data == nullptr; data is the three bytes the source reads.
writeMidiEvent(p, evs, time, channel, mport, dataNull, data, size) ==
    IF p.kIsInput THEN evs
    ELSE IF p.fBuffer = "nullptr" THEN evs
    ELSE IF channel >= MAX_MIDI_CHANNELS THEN evs
    ELSE IF dataNull THEN evs
    ELSE IF size = 0 THEN evs
    ELSE IF UsesEvents(p.kProcessMode)
    THEN IF MidiSizeTooLarge(size) THEN evs
         ELSE WriteLoop(evs, 0, p.kMaxEventCount, MidiEvent(time, channel, mport, data, size))
    ELSE evs

\* A call of writeControlEvent.
WriteControlEvent(time, channel, type, param, value) ==
    /\ events' = writeControlEvent(port, events, time, channel, type, param, value)
    /\ portRet' = NoRead
    /\ UNCHANGED <<hk, historyVars, options, engineType, running, aboutToClose, maxPluginNumber, optLog,
                   port, rackVars, nameVars, tableVars>>

\* A call of writeMidiEvent.
WriteMidiEvent(time, channel, mport, dataNull, data, size) ==
    /\ events' = writeMidiEvent(port, events, time, channel, mport, dataNull, data, size)
    /\ portRet' = NoRead
    /\ UNCHANGED <<hk, historyVars, options, engineType, running, aboutToClose, maxPluginNumber, optLog,
                   port, rackVars, nameVars, tableVars>>

\* A call of getEventCount.
GetEventCount ==
    /\ portRet' = [op |-> "getEventCount", index |-> 0,
                   count |-> getEventCount(port, events), event |-> kFallbackEngineEvent]
    /\ UNCHANGED <<hk, historyVars, options, engineType, running, aboutToClose, maxPluginNumber, optLog,
                   port, events, rackVars, nameVars, tableVars>>

\* A call of getEvent(index).
GetEvent(index) ==
    /\ portRet' = [op |-> "getEvent", index |-> index, count |-> 0,
                   event |-> getEvent(port, events, index)]
    /\ UNCHANGED <<hk, historyVars, options, engineType, running, aboutToClose, maxPluginNumber, optLog,
                   port, events, rackVars, nameVars, tableVars>>

\* The producer of an input port's events (the engine back-end in rack
\* mode, the connection code in patchbay mode): it stores an event in
\* insertion order, the end of the buffer staying marked by the first Null.
DeliverEvent(ev) ==
    /\ port.kIsInput
    /\ UsesEvents(port.kProcessMode)
    /\ events' = WriteLoop(events, 0, port.kMaxEventCount, ev)
    /\ events' # events
    /\ portRet' = NoRead
    /\ UNCHANGED <<hk, historyVars, options, engineType, running, aboutToClose, maxPluginNumber, optLog,
                   port, rackVars, nameVars, tableVars>>

\* ------------------------------------------------ getNewUniquePluginName
\* A name is the sequence of its characters; positions count from 0 as in
\* the source.

\* CarlaEngine::maxClientNameSize.
maxClientNameSize == STR_MAX \div 2

DigitChars == <<"0", "1", "2", "3", "4", "5", "6", "7", "8", "9">>

\* c - '0' for a digit c.
DigitValue(c) == (CHOOSE k \in 1..10 : DigitChars[k] = c) - 1

\* char(c + 1) for a digit c: the next digit, and ':' after '9'.
NextChar(c) == IF c = "9" THEN ":" ELSE DigitChars[DigitValue(c) + 2]

NoNameText == <<"(", "N", "o", " ", "n", "a", "m", "e", ")">>

\* " (2)" and " (10)".
Suffix2 == <<" ", "(", "2", ")">>
Suffix10 == <<" ", "(", "1", "0", ")">>

\* The position lies in the string.
InString(str, pos) == pos >= 0 /\ pos < Len(str)

\* sname[pos]; a position outside the string reads a byte that is not one
\* of the name's (callers record such a read).
CharAt(str, pos) == IF InString(str, pos) THEN str[pos + 1] ELSE "outside"

\* sname.isDigit(pos).
isDigit(str, pos) == \E k \in 1..10 : CharAt(str, pos) = DigitChars[k]

\* sname.truncate(n).
truncate(str, n) == IF Len(str) > n THEN SubSeq(str, 1, n) ELSE str

\* sname.replace(before, after).
replace(str, before, after) ==
    [k \in 1..Len(str) |-> IF str[k] = before THEN after ELSE str[k]]

\* sname[pos] = c.
SetChar(str, pos, c) == [str EXCEPT ![pos + 1] = c]

\* The test for a name already carrying a one-digit number, " (2)".
EndsOneDigit(str) ==
    LET len == Len(str) IN
    /\ CharAt(str, len - 4) = " " /\ CharAt(str, len - 3) = "("
    /\ isDigit(str, len - 2) /\ CharAt(str, len - 1) = ")"

\* The test for a name already carrying a two-digit number, " (11)".
EndsTwoDigits(str) ==
    LET len == Len(str) IN
    /\ CharAt(str, len - 5) = " " /\ CharAt(str, len - 4) = "("
    /\ isDigit(str, len - 3) /\ isDigit(str, len - 2) /\ CharAt(str, len - 1) = ")"

\* The two tests read sname[len-4] and, when the first fails, sname[len-5]:
\* whether one of these reads lies outside the string.
ReadsOutside(str) ==
    \/ ~InString(str, Len(str) - 4)
    \/ ~EndsOneDigit(str) /\ ~InString(str, Len(str) - 5)

\* "Check if string has already been modified" and "Modify string if not":
\* the name the loop body goes on with after a plugin had the same name.
Modified(str) ==
    LET len == Len(str) IN
    IF EndsOneDigit(str)
    THEN IF DigitValue(CharAt(str, len - 2)) = 9
         THEN truncate(str, len - 4) \o Suffix10
         ELSE SetChar(str, len - 2, NextChar(CharAt(str, len - 2)))
    ELSE IF EndsTwoDigits(str)
    THEN LET n2 == CharAt(str, len - 2)
             n3 == CharAt(str, len - 3)
         IN  IF n2 = "9"
             THEN SetChar(SetChar(str, len - 2, "0"), len - 3, NextChar(n3))
             ELSE SetChar(str, len - 2, NextChar(n2))
    ELSE str \o Suffix2

RECURSIVE UniqueLoop(_, _, _)
\* The loop over the plugins, for (i = 0; i < curPluginCount; i++): each
\* plugin is compared once, in slot order, with the name as it is by then.
\* A null plugin is dereferenced.
UniqueLoop(i, str, ub) ==
    IF i >= curPluginCount \/ i >= maxPluginNumber
    THEN [name |-> str, ub |-> ub]
    ELSE LET plugin == plugins[i].plugin IN
         IF plugin = NULL \/ IsDead(plugin)
         THEN [name |-> str, ub |-> TRUE]
         ELSE IF str # fName[plugin]
         THEN UniqueLoop(i + 1, str, ub)
         ELSE UniqueLoop(i + 1, Modified(str), ub \/ ReadsOutside(str))

\* kData->plugins == nullptr: the table has not been allocated or has been
\* deleted.
PluginsIsNull == DOMAIN plugins = {}

\* The cut of the requested name one character short.
CutLengthOneShort == maxClientNameSize - 5 - 2

\* maxClientNameSize()-5-1.
CutLength == maxClientNameSize - 5 - 1

\* CarlaEngine::getNewUniquePluginName: the value of sname it returns, and
\* whether undefined behaviour was met on the way.
getNewUniquePluginName(name) ==
    IF name = <<>> \/ PluginsIsNull
    THEN [name |-> NoNameText, ub |-> FALSE]
    ELSE UniqueLoop(0, replace(truncate(name, CutLength), ":", "."), FALSE)

NoNameCall == [op |-> "none", name |-> <<>>]

\* A call of getNewUniquePluginName(name).
GetNewUniquePluginName(name) ==
    /\ ~crashed
    /\ curPluginCount <= maxPluginNumber
    /\ LET r == getNewUniquePluginName(name) IN
       \E crash \in Crashes(r.ub) :
       IF crash
       THEN /\ crashed' = TRUE
            /\ UNCHANGED <<sname, nameCall>>
       ELSE /\ sname' = r.name
            /\ nameCall' = [op |-> "getNewUniquePluginName", name |-> name]
            /\ UNCHANGED crashed
    /\ ubSeen' = (ubSeen \/ getNewUniquePluginName(name).ub)
    /\ UNCHANGED <<hk, historyVars, options, engineType, running, aboutToClose, maxPluginNumber, optLog, portVars,
                   rackVars, fName, curPluginCount, plugins, heap, nextAction, mutexLocked,
                   threadRunning, lastError, ctl, lastCall, cbLog, rt>>

\* ------------------------------------------------------------------ Init

NoBridges == [bridge_native |-> "", bridge_posix32 |-> "", bridge_posix64 |-> "",
              bridge_win32 |-> "", bridge_win64 |-> ""]

\* fOptions: the fields setOption and addPlugin work on; those no input of
\* the model sets differently hold the defaults of EngineOptions.
MakeOptions(mode, prefer, bridges) ==
    [processMode |-> mode, preferPluginBridges |-> prefer,
     maxParameters |-> 200, preferredBufferSize |-> 512, preferredSampleRate |-> 44100,
     forceStereo |-> FALSE, useDssiVstChunks |-> FALSE, preferUiBridges |-> FALSE,
     oscUiTimeout |-> 4000,
     bridge_native |-> bridges.bridge_native, bridge_posix32 |-> bridges.bridge_posix32,
     bridge_posix64 |-> bridges.bridge_posix64, bridge_win32 |-> bridges.bridge_win32,
     bridge_win64 |-> bridges.bridge_win64]

\* The state CarlaEngine::init leaves, for the given configuration.
InitWith(opts, etype, run) ==
    /\ options = opts
    /\ engineType = etype
    /\ running = run
    /\ aboutToClose = FALSE
    /\ maxPluginNumber = MaxPluginNumberFor(opts.processMode)
    /\ curPluginCount = 0
    /\ plugins = [i \in 0..(MaxPluginNumberFor(opts.processMode) - 1) |-> EmptySlot]
    /\ heap = [p \in Pointers |-> UnusedCell]
    /\ nextAction = [opcode |-> "Null", pluginId |-> 0]
    /\ mutexLocked = FALSE
    /\ threadRunning = TRUE
    /\ lastError = ""
    /\ ctl = [c \in ControlThreads |-> IdleCtl]
    /\ lastCall = NoCall
    /\ cbLog = <<>>
    /\ rt = IdleRt
    /\ crashed = FALSE
    /\ ubSeen = FALSE
    /\ optLog = <<>>
    /\ fEnabled = [p \in Pointers |-> TRUE]
    /\ inBuf = Silence
    /\ outBuf = Silence
    /\ processed = FALSE
    /\ processLog = <<>>
    /\ publishedBy = "none"
    /\ executedFor = {}
    /\ hk = IdleHk

\* An event port as its constructor leaves it, with the array behind it.
PortInitWith(isInput, mode) ==
    /\ port = CarlaEngineEventPort(isInput, mode)
    /\ events = StorageFor(mode)
    /\ portRet = NoRead

\* The plugin objects' names, as their constructors set them, and the
\* static name buffer before the first call.
NameInitWith(names) ==
    /\ fName = names
    /\ sname = <<>>
    /\ nameCall = NoNameCall

\* Plugins all called "synth".
DefaultNames == [p \in Pointers |-> <<"s", "y", "n", "t", "h">>]

Posix32Bridge == [NoBridges EXCEPT !.bridge_posix32 = "carla-bridge-posix32"]

\* Rack mode with no bridges configured, stopped or running; and, stopped,
\* the engines that prefer plugin bridges and have one configured.
Init ==
    /\ \/ \E run \in BOOLEAN :
             InitWith(MakeOptions("CONTINUOUS_RACK", FALSE, NoBridges), "RtAudio", run)
       \/ \E mode \in {"MULTIPLE_CLIENTS", "CONTINUOUS_RACK"}, etype \in {"Jack", "RtAudio"} :
             InitWith(MakeOptions(mode, TRUE, Posix32Bridge), etype, FALSE)
    /\ PortInitWith(FALSE, "CONTINUOUS_RACK")
    /\ NameInitWith(DefaultNames)

\* Inputs of addPlugin.
BinaryInputs == {"NATIVE", "POSIX32"}
PluginInputs == {"NONE", "INTERNAL"}

\* A control thread enters a call.
CallStep(c) ==
    \/ \E btype \in BinaryInputs, ptype \in PluginInputs, loaderOk \in BOOLEAN :
          AddPlugin(c, btype, ptype, loaderOk)
    \/ \E id \in 0..(maxPluginNumber - 1) : RemovePluginBegin(c, id)
    \/ RemoveAllPluginsBegin(c)

\* A control thread goes on with the call it is in.
ContinueStep(c) ==
    \/ RemovePluginPublish(c)
    \/ RemovePluginLock(c)
    \/ RemovePluginWait(c)
    \/ RemovePluginSync(c)
    \/ RemovePluginDelete(c)
    \/ RemovePluginEnd(c)
    \/ WaitForProccessEndPublish(c)
    \/ WaitForProccessEndLock(c)
    \/ WaitForProccessEndWait(c)
    \/ WaitForProccessEndSync(c)
    \/ WaitForProccessEndUnlock(c)
    \/ RemoveAllPluginsLoop(c)

ControlStep(c) == CallStep(c) \/ ContinueStep(c)

AudioStep ==
    \/ ProccessPendingEvents
    \/ PostActionUnlock
    \/ ProcessRackFetch
    \/ ProcessRackUse

\* The plugin the audio thread is processing records its peaks under its id.
PluginStep ==
    /\ rt.pc = "use"
    /\ rt.plugin # NULL
    /\ heap[rt.plugin].state = "alive"
    /\ heap[rt.plugin].id \in PeakIds
    /\ \E inPeaks \in PeakInputs, outPeaks \in PeakInputs :
          SetPeaks(heap[rt.plugin].id, inPeaks, outPeaks)

Next == ControlStep(MainThread) \/ AudioStep \/ PluginStep

Spec == Init /\ [][Next]_vars

\* The driver calls the audio callback block after block, and a control
\* thread inside a call keeps executing it.
FairSpec == Spec /\ WF_vars(AudioStep) /\ WF_vars(ContinueStep(MainThread))

\* ------------------------------------ two control threads removing plugins

\* A control thread calls removePlugin or goes on with it.
RemoveStep(c) ==
    \/ \E id \in 0..(maxPluginNumber - 1) : RemovePluginBegin(c, id)
    \/ RemovePluginPublish(c)
    \/ RemovePluginLock(c)
    \/ RemovePluginWait(c)
    \/ RemovePluginSync(c)
    \/ RemovePluginDelete(c)
    \/ RemovePluginEnd(c)

\* A rack engine, stopped or running.
ConcurrentInit ==
    /\ \E run \in BOOLEAN :
          InitWith(MakeOptions("CONTINUOUS_RACK", FALSE, NoBridges), "RtAudio", run)
    /\ PortInitWith(FALSE, "CONTINUOUS_RACK")
    /\ NameInitWith(DefaultNames)

\* The main thread adds plugins while no removal is under way; both control
\* threads remove them while the audio thread runs its blocks.
ConcurrentNext ==
    \/ /\ \A c \in ControlThreads : ctl[c].pc = "idle"
       /\ curPluginCount < MaxConcurrentPlugins
       /\ AddPlugin(MainThread, "NATIVE", "INTERNAL", TRUE)
    \/ \E c \in ControlThreads : RemoveStep(c)
    \/ AudioStep

ConcurrentSpec == ConcurrentInit /\ [][ConcurrentNext]_vars

\* ------------------------------------------- an engine told it will close

\* The calls of the main thread and the blocks of the audio thread on a rack
\* engine, stopped or running, that may be told it is about to close.
ClosingNext ==
    \/ AddPlugin(MainThread, "NATIVE", "INTERNAL", TRUE)
    \/ \E id \in 0..(maxPluginNumber - 1) : RemovePluginBegin(MainThread, id)
    \/ RemoveAllPluginsBegin(MainThread)
    \/ ContinueStep(MainThread)
    \/ AudioStep
    \/ SetAboutToClose(MainThread)

ClosingSpec == ConcurrentInit /\ [][ClosingNext]_vars

\* ------------------------------------- an engine with its housekeeping

\* The calls of the main thread, the blocks of the audio thread and the
\* idle() calls of the housekeeping thread on a rack engine, stopped or
\* running.
HousekeepingNext ==
    \/ AddPlugin(MainThread, "NATIVE", "INTERNAL", TRUE)
    \/ \E id \in 0..(maxPluginNumber - 1) : RemovePluginBegin(MainThread, id)
    \/ RemoveAllPluginsBegin(MainThread)
    \/ ContinueStep(MainThread)
    \/ AudioStep
    \/ HousekeepingStep

HousekeepingSpec == ConcurrentInit /\ [][HousekeepingNext]_vars

\* ------------------------------------------------ the option surface alone

\* The options that take their value from valueStr.
PathOptions ==
    {"PROCESS_NAME", "PATH_BRIDGE_NATIVE", "PATH_BRIDGE_POSIX32", "PATH_BRIDGE_POSIX64",
     "PATH_BRIDGE_WIN32", "PATH_BRIDGE_WIN64"}

\* Inputs of setOption, <<option, value, valueStr>>: for an integer option
\* a negative value and 3 (true, PATCHBAY), for the process mode also 5
\* (beyond PATCHBAY); for the process name and two of the bridge paths no
\* string or a path.
OptionInputs ==
    {<<option, value, "">> : option \in OptionsTypes \ PathOptions, value \in {-1, 3}}
    \cup {<<"PROCESS_MODE", 5, "">>}
    \cup {<<option, 0, valueStr>> :
             option \in {"PROCESS_NAME", "PATH_BRIDGE_NATIVE", "PATH_BRIDGE_POSIX32"},
             valueStr \in {"", "carla-bridge"}}

\* A stopped or a running rack engine.
OptionInit ==
    /\ \E run \in BOOLEAN :
          InitWith(MakeOptions("CONTINUOUS_RACK", FALSE, NoBridges), "RtAudio", run)
    /\ PortInitWith(FALSE, "CONTINUOUS_RACK")
    /\ NameInitWith(DefaultNames)

\* Calls of setOption, and an addPlugin whose loader fails (it sets the
\* last error).
OptionNext ==
    \/ \E in \in OptionInputs : SetOption(in[1], in[2], in[3])
    \/ AddPlugin(MainThread, "NATIVE", "INTERNAL", FALSE)

OptionSpec == OptionInit /\ [][OptionNext]_vars

\* ---------------------------------------------------- an event port alone

PortModes == {"MULTIPLE_CLIENTS", "CONTINUOUS_RACK", "PATCHBAY"}

\* Inputs of writeControlEvent, <<time, channel, type, param, value>>: an
\* event with value 1.0 on the last channel at times 0, 1, 2, and then one
\* input per precondition it violates (channel 16, type Null, value just
\* above 1.0, a negative value, the bank-select controller 0 as parameter).
ControlInputs ==
    {<<0, 15, "Parameter", 7, 10>>, <<1, 15, "Parameter", 7, 10>>, <<2, 15, "Parameter", 7, 10>>,
     <<0, 16, "Parameter", 7, 5>>, <<0, 0, "Null", 7, 5>>,
     <<0, 0, "Parameter", 7, 11>>, <<0, 0, "Parameter", 7, -1>>,
     <<0, 0, "Parameter", 0, 5>>}

NoteOn == <<144, 60, 100>>

\* Inputs of writeMidiEvent, <<time, channel, port, dataNull, data, size>>:
\* sizes 0, 1, 3 and 4 on the last channel, channel 16, and data == nullptr.
MidiInputs ==
    {<<1, 15, 1, FALSE, NoteOn, size>> : size \in {0, 1, 3, 4}}
    \cup {<<1, 16, 1, FALSE, NoteOn, 3>>, <<1, 15, 1, TRUE, NoteOn, 3>>}

IndexInputs == 0..(PATCHBAY_EVENT_COUNT + 1)

\* The events delivered to an input port.
DeliveredEvents ==
    {ControlEvent(t, 15, "Parameter", 7, 10) : t \in 0..2}
    \cup {MidiEvent(1, 15, 1, NoteOn, 3)}

\* A port of either direction in one of three process modes.
PortInit ==
    \E isInput \in BOOLEAN, mode \in PortModes :
        /\ InitWith(MakeOptions(mode, FALSE, NoBridges), "RtAudio", TRUE)
        /\ PortInitWith(isInput, mode)
        /\ NameInitWith(DefaultNames)

PortNext ==
    \/ \E engine \in Engines : InitBuffer(engine)
    \/ \E in \in ControlInputs : WriteControlEvent(in[1], in[2], in[3], in[4], in[5])
    \/ \E in \in MidiInputs : WriteMidiEvent(in[1], in[2], in[3], in[4], in[5], in[6])
    \/ GetEventCount
    \/ \E index \in IndexInputs : GetEvent(index)
    \/ \E ev \in DeliveredEvents : DeliverEvent(ev)

PortSpec == PortInit /\ [][PortNext]_vars

\* An output port in one of three process modes, and only the calls that
\* write into its buffer.
WriteInit ==
    \E mode \in PortModes :
        /\ InitWith(MakeOptions(mode, FALSE, NoBridges), "RtAudio", TRUE)
        /\ PortInitWith(FALSE, mode)
        /\ NameInitWith(DefaultNames)

WriteNext ==
    \/ \E engine \in Engines : InitBuffer(engine)
    \/ \E in \in ControlInputs : WriteControlEvent(in[1], in[2], in[3], in[4], in[5])
    \/ \E in \in MidiInputs : WriteMidiEvent(in[1], in[2], in[3], in[4], in[5], in[6])

WriteSpec == WriteInit /\ [][WriteNext]_vars

\* ------------------------------------------------- the rack, block by block

\* A channel whose sample j is j.
Ramp == [j \in 1..Frames |-> j]

\* Input buffers of a block: 1.0 on the left and -1.0 on the right, and a
\* ramp on the left with silence on the right.
BlockInputs == {<<Channel(1), Channel(-1)>>, <<Ramp, Channel(0)>>}

\* What the output buffers hold when the driver hands them over.
StaleOutputs == {<<Channel(3), Channel(3)>>}

\* A running rack engine.
RackInit ==
    /\ InitWith(MakeOptions("CONTINUOUS_RACK", FALSE, NoBridges), "RtAudio", TRUE)
    /\ PortInitWith(FALSE, "CONTINUOUS_RACK")
    /\ NameInitWith(DefaultNames)

\* The control thread adds, enables and disables plugins; the driver
\* supplies the buffers of each block and the audio thread runs it (no
\* post-action is ever published here, so the drain finds the slot empty).
RackNext ==
    \/ AddPlugin(MainThread, "NATIVE", "INTERNAL", TRUE)
    \/ \E plugin \in Pointers, yesNo \in BOOLEAN : SetEnabled(plugin, yesNo)
    \/ \E in \in BlockInputs, out \in StaleOutputs : DriverBlock(in, out)
    \/ ProccessPendingEvents
    \/ ProcessRackFetch
    \/ ProcessRackUse

RackSpec == RackInit /\ [][RackNext]_vars

\* ------------------------------------------------------- closing an engine

\* A stopped rack engine.
CloseInit ==
    /\ InitWith(MakeOptions("CONTINUOUS_RACK", FALSE, NoBridges), "RtAudio", FALSE)
    /\ PortInitWith(FALSE, "CONTINUOUS_RACK")
    /\ NameInitWith(DefaultNames)

\* Plugins are added and removed one by one or all at once, and the engine
\* is closed.
CloseNext ==
    \/ AddPlugin(MainThread, "NATIVE", "INTERNAL", TRUE)
    \/ \E id \in 0..(maxPluginNumber - 1) : RemovePluginBegin(MainThread, id)
    \/ RemovePluginPublish(MainThread)
    \/ RemovePluginLock(MainThread)
    \/ RemovePluginSync(MainThread)
    \/ RemovePluginDelete(MainThread)
    \/ RemovePluginEnd(MainThread)
    \/ RemoveAllPluginsBegin(MainThread)
    \/ WaitForProccessEndPublish(MainThread)
    \/ WaitForProccessEndLock(MainThread)
    \/ WaitForProccessEndSync(MainThread)
    \/ WaitForProccessEndUnlock(MainThread)
    \/ RemoveAllPluginsLoop(MainThread)
    \/ Close(MainThread)

CloseSpec == CloseInit /\ [][CloseNext]_vars

\* ------------------------------------------------------ the naming service

Synth == <<"s", "y", "n", "t", "h">>

\* "synth (n)" for n in 2..99.
Numbered(n) ==
    Synth \o <<" ", "(">>
          \o (IF n < 10 THEN <<DigitChars[n + 1]>>
              ELSE <<DigitChars[(n \div 10) + 1], DigitChars[(n % 10) + 1]>>)
          \o <<")">>

\* The names the plugins of a run carry: "synth", "synth (2)", "synth (9)"
\* and "synth (10)".
PluginNames == {Synth, Numbered(2), Numbered(9), Numbered(10)}

\* The names asked for: those, the empty name, a short name, a name with a
\* colon, and a name longer than the cut.
CallNames ==
    PluginNames
    \cup {<<>>, <<"b", "a", "s", "s">>, <<"s", "y", ":", "t", "h">>,
          Synth \o <<"e", "s", "i", "z", "e", "r", "s">>}

\* A stopped rack engine; each plugin object carries one of the names.
NameInit ==
    /\ InitWith(MakeOptions("CONTINUOUS_RACK", FALSE, NoBridges), "RtAudio", FALSE)
    /\ PortInitWith(FALSE, "CONTINUOUS_RACK")
    /\ \E names \in [Pointers -> PluginNames] : NameInitWith(names)

\* Plugins are added, and unique names are asked for.
NameNext ==
    \/ AddPlugin(MainThread, "NATIVE", "INTERNAL", TRUE)
    \/ \E name \in CallNames : GetNewUniquePluginName(name)

NameSpec == NameInit /\ [][NameNext]_vars

\* ================================================================ claims

Main == ctl[MainThread]

\* Every index below count holds a (live) plugin whose id() is the index.
PrefixOk(count) ==
    /\ count <= maxPluginNumber
    /\ \A i \in DOMAIN plugins :
          i < count => /\ plugins[i].plugin # NULL
                       /\ heap[plugins[i].plugin].state = "alive"
                       /\ heap[plugins[i].plugin].id = i

\* A step that executes a published RemovePlugin action (doPluginRemove),
\* on either thread.
RemoveExecuted ==
    /\ nextAction.opcode = "RemovePlugin"
    /\ nextAction'.opcode = "Null"
    /\ ~crashed'

\* A call of addPlugin by the control thread.
AddCall(btype, ptype, loaderOk) == AddPlugin(MainThread, btype, ptype, loaderOk)

AddInputs == BinaryInputs \X PluginInputs \X BOOLEAN

\* C1: after every add_plugin / remove_plugin call has returned, each index
\* i < cur_plugin_count holds a plugin and that plugin's id() equals i
\* (in every run that has executed no undefined behaviour so far).
C1_PrefixDenseAfterEveryCall ==
    (Main.pc = "idle" /\ ~crashed /\ ~ubSeen) => PrefixOk(curPluginCount)

\* C2: after every call has returned, every slot index in
\* [cur_plugin_count, max_plugin_number) holds no plugin.
C2_TailSlotsEmpty ==
    (Main.pc = "idle" /\ ~crashed) =>
        \A i \in DOMAIN plugins : i >= curPluginCount => plugins[i].plugin = NULL

\* C3: executing remove_plugin(k) on a table that holds old_count plugins,
\* k < old_count, leaves old_count - 1 plugins, and every slot i in
\* [k, old_count - 1) holds the plugin that was at slot i + 1, its id set to i.
C3_RemoveShiftsDown ==
    [][(/\ RemoveExecuted
        /\ PrefixOk(curPluginCount)
        /\ nextAction.pluginId < curPluginCount)
       => /\ curPluginCount' = curPluginCount - 1
          /\ \A i \in DOMAIN plugins :
                (i >= nextAction.pluginId /\ i < curPluginCount - 1) =>
                    /\ plugins'[i].plugin = plugins[i + 1].plugin
                    /\ heap'[plugins'[i].plugin].id = i
          /\ \A i \in DOMAIN plugins :
                i < nextAction.pluginId => plugins'[i] = plugins[i]]_vars

\* C3 witness: two plugins were added and remove_plugin(0) returned; one
\* plugin is left, the second one, in slot 0 with id 0.
C3_Witness ==
    /\ lastCall = [op |-> "removePlugin", id |-> 0, ret |-> "true"]
    /\ curPluginCount = 1
    /\ plugins[0].plugin = 2
    /\ heap[2] = [state |-> "alive", id |-> 0]
    /\ heap[1].state = "deleted"
    /\ heap[3].state = "unused"

\* C4: add_plugin at cur_plugin_count == max_plugin_number returns false,
\* sets last_error, changes no slot and not the count, and emits no callback;
\* and once a remove_plugin has then succeeded, leaving one slot free, an
\* add_plugin whose loader succeeds returns true and takes that slot.
C4_AddAtCapacityFails ==
    [][\A in \in AddInputs :
         (/\ curPluginCount \in {maxPluginNumber - 1, maxPluginNumber}
          /\ AddCall(in[1], in[2], in[3])) =>
           /\ curPluginCount = maxPluginNumber =>
                /\ lastCall'.ret = "false"
                /\ lastError' = ErrMaxReached
                /\ plugins' = plugins
                /\ heap' = heap
                /\ curPluginCount' = curPluginCount
                /\ cbLog' = <<>>
           /\ (/\ lastError = ErrMaxReached
               /\ lastCall.op = "removePlugin" /\ lastCall.ret = "true"
               /\ curPluginCount = maxPluginNumber - 1
               /\ ~BridgeWanted(in[1])
               /\ ConstructorReturnsPlugin(in[2], in[3])) =>
                /\ lastCall'.ret = "true"
                /\ curPluginCount' = maxPluginNumber
                /\ plugins'[maxPluginNumber - 1].plugin # NULL
                /\ ~crashed']_vars

\* C4 witness: the table was filled, an add_plugin failed at capacity, a
\* remove_plugin succeeded and the next add_plugin has filled the table again
\* (the object in the last slot is the one constructed after the table was full).
C4_Witness ==
    /\ lastError = ErrMaxReached
    /\ lastCall = [op |-> "addPlugin", id |-> maxPluginNumber - 1, ret |-> "true"]
    /\ curPluginCount = maxPluginNumber
    /\ plugins[maxPluginNumber - 1].plugin = maxPluginNumber + 1

C6_BridgePolicyFails ==
    [][\A in \in AddInputs :
         (/\ AddCall(in[1], in[2], in[3])
          /\ BridgeWanted(in[1])
          /\ ~(options.processMode = "MULTIPLE_CLIENTS" /\ engineType = "Jack"))
         => /\ lastCall'.ret = "false"
            /\ curPluginCount' = curPluginCount
            /\ plugins' = plugins]_vars

\* C7: while the audio thread is between the end of its post-action drain
\* and the end of its plugin loop, the table satisfies the density/id
\* invariant (in every run that has executed no undefined behaviour so far).
C7_BlockSeesDenseTable ==
    (running /\ ~crashed /\ ~ubSeen /\ rt.pc \in {"rack", "use"}) => PrefixOk(curPluginCount)

\* C8: the plugin object the audio thread is about to use in its loop has
\* not been deleted (in every run that has executed no undefined behaviour
\* so far).
C8_BlockUsesLivePlugins ==
    (~crashed /\ ~ubSeen /\ rt.pc = "use" /\ rt.plugin # NULL) => heap[rt.plugin].state = "alive"

\* C9: on a running engine whose audio thread keeps running blocks, every
\* remove_plugin / remove_all_plugins call the control thread is in
\* eventually returns (or the process has died).
C9_RemoveEventuallyReturns ==
    (running /\ Main.pc # "idle") ~> (Main.pc = "idle" \/ crashed)

\* C10: the audio thread never waits for the control thread: in every state
\* of a running engine its next step is enabled.
C10_AudioThreadNeverBlocks ==
    (running /\ ~crashed) => ENABLED AudioStep

\* C10 witness: the control thread holds the post-action mutex and waits on
\* it while the audio thread is about to drain the published action.
C10_Witness ==
    /\ running /\ ~crashed
    /\ Main.pc = "rp_wait"
    /\ mutexLocked
    /\ rt.pc = "top"
    /\ nextAction.opcode = "RemovePlugin"

\* The plugin pointers of the table.
SlotPlugins == [i \in DOMAIN plugins |-> plugins[i].plugin]

\* A step of the audio thread's post-action drain (proccessPendingEvents
\* executing a published action).
DrainStep == rt.pc = "top" /\ rt'.pc = "unlock"

\* C11: while the engine is running, a slot's plugin or cur_plugin_count is
\* written only by the audio thread inside its post-action drain, never
\* directly by add_plugin, remove_plugin or remove_all_plugins.
C11_TableWrittenOnlyInDrain ==
    [][(running /\ (SlotPlugins' # SlotPlugins \/ curPluginCount' # curPluginCount))
       => DrainStep]_vars

\* C12: a published RemovePlugin action that has not been executed yet is
\* never overwritten by another submission: the post-action slot changes
\* only by that action being executed (so each submitted removal is executed
\* with its own plugin id).
C12_PendingActionNotOverwritten ==
    [][(running /\ nextAction.opcode = "RemovePlugin") =>
          (nextAction' = nextAction \/ RemoveExecuted)]_vars

\* The options the spec marks as requiring a stopped engine.
StoppedOnlyOptions ==
    {"PROCESS_MODE", "MAX_PARAMETERS", "PREFERRED_BUFFER_SIZE", "PREFERRED_SAMPLE_RATE",
     "FORCE_STEREO", "PREFER_PLUGIN_BRIDGES", "PREFER_UI_BRIDGES", "OSC_UI_TIMEOUT"}

\* C13: while the engine is running, set_option for an option that requires
\* a stopped engine is rejected (an error is logged) and leaves every field
\* of options unchanged.
C13_RunningRejectsOption ==
    [][\A in \in OptionInputs :
         (running /\ in[1] \in StoppedOnlyOptions /\ SetOption(in[1], in[2], in[3])) =>
            /\ options' = options
            /\ optLog' = <<Critical(in[1], in[2], in[3], ErrOptionRunning)>>]_vars

\* C13 witness: on a running engine whose bridge path was set meanwhile,
\* set_option(OscUiTimeout, 3) has just been rejected and the timeout is
\* still the default.
C13_Witness ==
    /\ running
    /\ optLog = <<Critical("OSC_UI_TIMEOUT", 3, "", ErrOptionRunning)>>
    /\ options.oscUiTimeout = 4000
    /\ options.bridge_native = "carla-bridge"

\* A call set_option(ProcessMode, Patchbay, "") on a running engine.
ProcessModeCallWhileRunning == running /\ SetOption("PROCESS_MODE", 3, "")

\* C14 as stated: when set_option(ProcessMode, Patchbay, "") is rejected
\* because the engine is running, options.process_mode is unchanged and
\* last_error is set (non-empty) after the call.
C14_RejectionSetsLastError ==
    [][ProcessModeCallWhileRunning =>
          /\ options'.processMode = options.processMode
          /\ lastError' # ""]_vars

\* C14 amended: when set_option(ProcessMode, Patchbay, "") is rejected
\* because the engine is running, options.process_mode is unchanged, the
\* rejection is logged, and last_error keeps the value it had before the call.
C14_RejectionLeavesLastError ==
    [][ProcessModeCallWhileRunning =>
          /\ options'.processMode = options.processMode
          /\ optLog' = <<Critical("PROCESS_MODE", 3, "", ErrOptionRunning)>>
          /\ lastError' = lastError]_vars

\* C14 witness: the call was rejected on a running rack engine whose last
\* error is still the one an earlier add_plugin left.
C14_Witness ==
    /\ running
    /\ optLog = <<Critical("PROCESS_MODE", 3, "", ErrOptionRunning)>>
    /\ options.processMode = "CONTINUOUS_RACK"
    /\ lastError = ErrLoader

\* The bank-select controllers: CC 0 (MSB) and CC 32 (LSB).
MIDI_IS_CONTROL_BANK_SELECT(param) == param \in {0, 32}

\* An input <<time, channel, type, param, value>> of write_control that
\* violates a precondition: channel >= 16, value outside [0, 1] (tenths),
\* type Null, or type Parameter with a bank-select controller as param.
ControlPreconditionViolated(in) ==
    \/ in[2] >= MAX_MIDI_CHANNELS
    \/ in[5] < 0 \/ in[5] > 10
    \/ in[3] = "Null"
    \/ in[3] = "Parameter" /\ MIDI_IS_CONTROL_BANK_SELECT(in[4])

\* The port is an output port with a buffer that still has a Null slot.
WritablePort ==
    /\ ~port.kIsInput
    /\ port.fBuffer # "nullptr"
    /\ UsesEvents(port.kProcessMode)
    /\ \E i \in DOMAIN events : events[i].type = "Null"

\* C15: write_control on an output port with a precondition violated leaves
\* the event buffer unchanged (in particular with a value just above 1.0),
\* while a valid call with value 1.0 on a port with room is written.
C15_InvalidControlNotWritten ==
    [][\A in \in ControlInputs :
         (~port.kIsInput /\ WriteControlEvent(in[1], in[2], in[3], in[4], in[5])) =>
            /\ ControlPreconditionViolated(in) => events' = events
            /\ (~ControlPreconditionViolated(in) /\ in[5] = 10 /\ WritablePort) =>
                   \E i \in DOMAIN events :
                      /\ events[i].type = "Null"
                      /\ events'[i] = ControlEvent(in[1], in[2], in[3], in[4], in[5])]_vars

\* The index of the first Null entry of a buffer that has one.
FirstNull(evs) ==
    CHOOSE i \in DOMAIN evs :
       /\ evs[i].type = "Null"
       /\ \A j \in DOMAIN evs : j < i => evs[j].type # "Null"

\* C16: write_midi with size 0 or size > 3 leaves the event buffer
\* unchanged; with size in [1, 3], channel < 16 and an output buffer that is
\* not full it fills the first Null slot, and no other, with a Midi event
\* carrying the given time, channel, port and size.
C16_MidiSizeChecked ==
    [][\A in \in MidiInputs :
         (~port.kIsInput /\ WriteMidiEvent(in[1], in[2], in[3], in[4], in[5], in[6])) =>
            /\ (in[6] = 0 \/ in[6] > 3) => events' = events
            /\ (in[6] >= 1 /\ in[6] <= 3 /\ in[2] < 16 /\ ~in[4] /\ WritablePort) =>
                   LET i == FirstNull(events) IN
                   /\ events'[i].type = "Midi"
                   /\ events'[i].time = in[1]
                   /\ events'[i].channel = in[2]
                   /\ events'[i].midi.port = in[3]
                   /\ events'[i].midi.size = in[6]
                   /\ \A j \in DOMAIN events : j # i => events'[j] = events[j]]_vars

\* C16 witness: a patchbay output port whose buffer holds a control event
\* followed by a MIDI event of size 1, written into the first Null slot.
C16_Witness ==
    /\ ~port.kIsInput /\ port.kProcessMode = "PATCHBAY"
    /\ events[0].type = "Control"
    /\ events[1] = MidiEvent(1, 15, 1, NoteOn, 1)
    /\ events[2].type = "Null"

\* An input port of the same process mode whose fBuffer is the array of p.
AsInput(p) == [p EXCEPT !.kIsInput = TRUE]

\* A call of write_control with valid arguments on an output port that has
\* room.
ValidControlWrite(in) ==
    /\ WritablePort
    /\ ~ControlPreconditionViolated(in)
    /\ WriteControlEvent(in[1], in[2], in[3], in[4], in[5])

\* C17 as stated: after write_control(t, c, ty, p, v) with valid arguments
\* on an output port, event_count / get_event on that same port yield the
\* event: the count has grown to cover it and get_event returns an event
\* equal in all fields.
C17_WriteThenReadSamePort ==
    [][\A in \in ControlInputs :
         ValidControlWrite(in) =>
            LET i == FirstNull(events) IN
            /\ getEventCount(port', events') = i + 1
            /\ getEvent(port', events', i) = ControlEvent(in[1], in[2], in[3], in[4], in[5])]_vars

\* C17 amended: after write_control with valid arguments on an output port
\* whose buffer is not full, the first formerly Null entry of the buffer
\* equals the event in all fields and no other entry has changed; the
\* output port's own event_count / get_event still yield 0 and Null, while
\* an input port on the same array counts the event, returns it in its
\* place, and returns Null for the next index.
C17_WriteStoresEvent ==
    [][\A in \in ControlInputs :
         ValidControlWrite(in) =>
            LET i == FirstNull(events)
                ev == ControlEvent(in[1], in[2], in[3], in[4], in[5])
            IN
            /\ events'[i] = ev
            /\ \A j \in DOMAIN events : j # i => events'[j] = events[j]
            /\ getEventCount(port', events') = 0
            /\ getEvent(port', events', i) = kFallbackEngineEvent
            /\ getEventCount(AsInput(port'), events') = i + 1
            /\ getEvent(AsInput(port'), events', i) = ev
            /\ getEvent(AsInput(port'), events', i + 1).type = "Null"]_vars

\* C17 witness: three control events were written at times 0, 1, 2 on a
\* patchbay output port; they are entries 0..2 in order, entry 3 is Null,
\* and an input port on the array counts three.
C17_Witness ==
    /\ ~port.kIsInput /\ port.kProcessMode = "PATCHBAY"
    /\ \A t \in 0..2 : events[t] = ControlEvent(t, 15, "Parameter", 7, 10)
    /\ events[3].type = "Null"
    /\ getEventCount(AsInput(port), events) = 3

\* The number of non-Null entries of a buffer.
NonNullCount(evs) == Cardinality({i \in DOMAIN evs : evs[i].type # "Null"})

\* The port has a buffer of events.
HasBuffer(p) == p.fBuffer # "nullptr" /\ UsesEvents(p.kProcessMode)

C19_CountIsFirstNull ==
    [][GetEventCount =>
          portRet'.count =
             IF port.kIsInput /\ port.fBuffer # "nullptr"
             THEN IF \E i \in DOMAIN events : events[i].type = "Null"
                  THEN FirstNull(events) ELSE port.kMaxEventCount
             ELSE 0]_vars

\* C19 witness: event_count has returned 2 on an input port holding two
\* events followed by Null.
C19_Witness ==
    /\ port.kIsInput /\ HasBuffer(port)
    /\ port.kMaxEventCount > 2
    /\ events[0].type # "Null" /\ events[1].type # "Null" /\ events[2].type = "Null"
    /\ portRet.op = "getEventCount"
    /\ portRet.count = 2

\* C20: get_event(i) returns entry i for i below the capacity of an input
\* port that has a buffer, and the Null sentinel event for i >= capacity,
\* for a port that is not an input and for a missing buffer; it never
\* reads outside the buffer.
C20_GetEventBoundsChecked ==
    [][\A index \in IndexInputs :
         GetEvent(index) =>
            /\ portRet'.event =
                  IF port.kIsInput /\ port.fBuffer # "nullptr" /\ index < port.kMaxEventCount
                  THEN events[index] ELSE kFallbackEngineEvent
            /\ portRet'.event.type # "Outside"]_vars

\* C20 witness: get_event at the capacity of an input port that holds
\* events has returned the Null sentinel.
C20_Witness ==
    /\ port.kIsInput /\ HasBuffer(port)
    /\ events[0].type # "Null"
    /\ portRet.op = "getEvent"
    /\ portRet.index = port.kMaxEventCount
    /\ portRet.event = kFallbackEngineEvent

\* A call of write_control or write_midi with one of the modelled inputs.
AnyWrite ==
    \/ \E in \in ControlInputs : WriteControlEvent(in[1], in[2], in[3], in[4], in[5])
    \/ \E in \in MidiInputs : WriteMidiEvent(in[1], in[2], in[3], in[4], in[5], in[6])

\* C21: write_control and write_midi on an output port change at most the
\* first Null entry of the buffer, which then holds a non-Null event, and
\* leave every other entry as it was; on a buffer without a Null entry the
\* event is dropped and the buffer is unchanged (same length, same entries);
\* a valid write_control on a buffer with room does fill the first Null.
C21_WriteFillsFirstNullOnly ==
    [][(~port.kIsInput /\ AnyWrite) =>
          /\ DOMAIN events' = DOMAIN events
          /\ IF WritablePort
             THEN LET i == FirstNull(events) IN
                  /\ \A j \in DOMAIN events : j # i => events'[j] = events[j]
                  /\ events'[i] = events[i] \/ events'[i].type \in {"Control", "Midi"}
             ELSE events' = events
          /\ \A in \in ControlInputs :
                ValidControlWrite(in) => events'[FirstNull(events)].type = "Control"]_vars

\* C21 witness: a patchbay output port whose buffer has been filled slot by
\* slot, in order, and is now full: any further write is dropped.
C21_Witness ==
    /\ ~port.kIsInput /\ port.kProcessMode = "PATCHBAY"
    /\ \A t \in 0..2 : events[t] = ControlEvent(t, 15, "Parameter", 7, 10)
    /\ events[3] = MidiEvent(1, 15, 1, NoteOn, 3)
    /\ ~WritablePort

\* The step of processRack that ends a block.
BlockEnds == rt.pc = "rack" /\ rt'.pc = "top"

\* Every plugin in the table is disabled (or there is none).
NoPluginEnabled ==
    \A i \in DOMAIN plugins :
       i < curPluginCount => plugins[i].plugin = NULL \/ ~fEnabled[plugins[i].plugin]

\* C22: when a rack block ends in which no plugin ran (no plugins, or every
\* plugin disabled), each output channel equals the corresponding input
\* channel sample for sample.
C22_RackPassThrough ==
    [][(BlockEnds /\ NoPluginEnabled) =>
          \A ch \in 1..2 : \A j \in 1..Frames : outBuf'[ch][j] = inBuf[ch][j]]_vars

\* C22 witness: a block with input 1.0 / -1.0 has ended on a rack holding
\* two plugins, both disabled, and the outputs equal the inputs.
C22_Witness ==
    /\ rt.pc = "top" /\ ~processed
    /\ curPluginCount = 2 /\ NoPluginEnabled
    /\ inBuf = <<Channel(1), Channel(-1)>>
    /\ outBuf = inBuf

\* The ids of the enabled plugins in the table, in ascending order.
EnabledIds ==
    SelectSeq([k \in 1..curPluginCount |-> k - 1],
              LAMBDA i : plugins[i].plugin # NULL /\ fEnabled[plugins[i].plugin])

\* C30: every rack block starts with the drain of the post-action slot,
\* which leaves no action pending, and by the end of the block process has
\* been invoked exactly once on each enabled plugin, in ascending id order,
\* and on no disabled plugin.
C30_BlockDrainsThenProcesses ==
    [][/\ (rt.pc = "top" /\ rt'.pc # "top") => nextAction'.opcode = "Null"
       /\ (BlockEnds /\ ~crashed /\ ~ubSeen) => processLog' = EnabledIds]_vars

\* The names of the plugins in the table.
ExistingNames ==
    {fName[plugins[i].plugin] : i \in {j \in DOMAIN plugins : j < curPluginCount}}

\* C23: the name get_new_unique_plugin_name returns is not the name of any
\* plugin in the table, whatever the table holds and in whatever order.
C23_ResultIsUnique ==
    [][\A name \in CallNames :
         (GetNewUniquePluginName(name) /\ ~crashed') => sname' \notin ExistingNames]_vars

\* The name is non-empty, holds no ':' and is no longer than
\* max_client_name_size() - 6.
WellFormed(name) ==
    /\ name # <<>>
    /\ Len(name) <= maxClientNameSize - 6
    /\ \A k \in 1..Len(name) : name[k] # ":"

\* prefix followed by " (n)".
WithNumber(prefix, n) ==
    prefix \o <<" ", "(">>
           \o (IF n < 10 THEN <<DigitChars[n + 1]>>
               ELSE <<DigitChars[(n \div 10) + 1], DigitChars[(n % 10) + 1]>>)
           \o <<")">>

\* The candidate that follows str by the rule of the naming service: a
\* name ending in " (N)", N of one or two digits below 99, gets N + 1;
\* any other name gets " (2)" appended.
NextCandidate(str) ==
    IF \E n \in 0..98 : Len(str) > Len(WithNumber(<<>>, n))
                         /\ str = WithNumber(SubSeq(str, 1, Len(str) - Len(WithNumber(<<>>, n))), n)
    THEN LET n == CHOOSE m \in 0..98 :
                     /\ Len(str) > Len(WithNumber(<<>>, m))
                     /\ str = WithNumber(SubSeq(str, 1, Len(str) - Len(WithNumber(<<>>, m))), m)
         IN  WithNumber(SubSeq(str, 1, Len(str) - Len(WithNumber(<<>>, n))), n + 1)
    ELSE str \o <<" ", "(", "2", ")">>

RECURSIVE FirstUnused(_, _)
\* While some existing plugin has the candidate name, take the next
\* candidate (at most `fuel` times).
FirstUnused(str, fuel) ==
    IF fuel = 0 \/ str \notin ExistingNames THEN str
    ELSE FirstUnused(NextCandidate(str), fuel - 1)

\* C24: for a well-formed name (non-empty, no ':', within the length cut)
\* get_new_unique_plugin_name returns the first candidate no existing
\* plugin has, the candidates being the name itself and then, repeatedly,
\* the name with its " (N)" incremented (9 becomes 10) or " (2)" appended;
\* so with plugins "synth" and "synth (2)" the call with "synth" returns
\* "synth (3)".
C24_DerivationFollowsRule ==
    [][\A name \in CallNames :
         (WellFormed(name) /\ GetNewUniquePluginName(name) /\ ~crashed')
         => sname' = FirstUnused(name, 99)]_vars

TablePlugins ==
    {plugins[i].plugin : i \in {j \in DOMAIN plugins : j < curPluginCount}} \ {NULL}

\* C26: when close() has returned, about_to_close is true, the housekeeping
\* thread is stopped, no post-action is pending, cur_plugin_count is 0 and
\* every plugin that was in the table has been deleted.
C26_CloseDeletesPlugins ==
    [][Close(MainThread) =>
          /\ aboutToClose' /\ ~threadRunning'
          /\ nextAction'.opcode = "Null"
          /\ curPluginCount' = 0
          /\ \A plugin \in TablePlugins : heap'[plugin].state = "deleted"]_vars

\* C27: on a stopped engine set_option(OscUiTimeout, v) leaves
\* options.osc_ui_timeout unchanged when v < 0 and stores exactly v when
\* v >= 0, so the timeout is never a negative input turned unsigned.
C27_OscUiTimeoutNonnegative ==
    [][\A in \in OptionInputs :
         (~running /\ in[1] = "OSC_UI_TIMEOUT" /\ SetOption(in[1], in[2], in[3])) =>
            options'.oscUiTimeout = IF in[2] < 0 THEN options.oscUiTimeout ELSE in[2]]_vars

\* Control thread c deletes the plugin of its remove_plugin call.
DeletesPlugin(c) == ctl[c].pc = "rp_delete" /\ ctl'[c].pc = "rp_unlock"

\* C28: on a running engine remove_plugin deletes the plugin, and so
\* returns, only after the processor thread has executed the RemovePlugin
\* action that this call stored.
C28_DeleteAfterExecution ==
    [][\A c \in ControlThreads : (running /\ DeletesPlugin(c)) => c \in executedFor]_vars

\* Control thread c stores 0 into cur_plugin_count inside remove_all_plugins.
ZeroesCount(c) ==
    /\ ctl[c].pc = "idle" /\ ctl'[c].pc = "ra_publish"
    /\ curPluginCount # 0 /\ curPluginCount' = 0

\* Control thread c has stored the Idle action and acquired the mutex.
UnderIdleBarrier(c) == ctl[c].pc \in {"ra_wait", "ra_sync", "ra_unlock", "ra_loop"}

\* Control thread c deletes a plugin in the loop of remove_all_plugins.
DeletesInLoop(c) == ctl[c].pc = "ra_loop" /\ heap' # heap

\* On a running engine remove_all_plugins deletes a plugin only after the
\* Idle action it stored has been executed.
DeleteAfterIdle ==
    \A c \in ControlThreads : (running /\ DeletesInLoop(c)) => nextAction.opcode # "Idle"

\* C29: on a running engine remove_all_plugins sets cur_plugin_count to 0
\* only once it has stored the Idle action and acquired the mutex, and it
\* deletes no plugin before the processor thread has executed that action.
C29_CountZeroedUnderBarrier ==
    [][/\ \A c \in ControlThreads : (running /\ ZeroesCount(c)) => UnderIdleBarrier(c)
       /\ DeleteAfterIdle]_vars

\* A call of init_buffer with an engine.
InitBufferCall == \E engine \in Engines \ {"nullptr"} : InitBuffer(engine)

\* The port has a buffer and every entry of it is Null.
EmptyAndWritable(p, evs) ==
    /\ p.fBuffer # "nullptr"
    /\ \A i \in DOMAIN evs : evs[i].type = "Null"

\* A patchbay input port keeps its contents across init_buffer.
PatchbayInputKept ==
    (InitBufferCall /\ port.kIsInput /\ port.kProcessMode = "PATCHBAY")
       => (events' = events /\ port' = port)

\* C31: after init_buffer on an output event port, in rack mode as well as
\* in patchbay mode, the port has a buffer whose entries are all Null; an
\* input port in patchbay mode keeps its contents across init_buffer.
C31_InitBufferZeroesOutputs ==
    [][/\ (InitBufferCall /\ ~port.kIsInput /\ UsesEvents(port.kProcessMode))
            => EmptyAndWritable(port', events')
       /\ PatchbayInputKept]_vars

\* The step of remove_plugin that stores the post-action.
PublishesRemove(c) == ctl[c].pc = "rp_publish" /\ ctl'[c].pc = "rp_lock"

\* The step of remove_plugin that unlocks, restarts and returns true.
CompletesRemove(c) == ctl[c].pc = "rp_unlock" /\ ctl'[c].pc = "idle"

\* C32: remove_plugin publishes its post-action with the housekeeping
\* thread stopped, and when it completes the thread runs if and only if the
\* engine is running and not about to close; so after a remove_plugin on a
\* stopped or closing engine the housekeeping thread stays stopped.
C32_HousekeepingStoppedAndRestarted ==
    [][\A c \in ControlThreads :
         /\ PublishesRemove(c) => (~threadRunning /\ ~threadRunning')
         /\ CompletesRemove(c) =>
               /\ ~threadRunning
               /\ threadRunning' = (running /\ ~aboutToClose)]_vars

\* A remove_plugin completed on a running engine that is about to close,
\* and the housekeeping thread is stopped.
C32_Witness ==
    /\ Main.pc = "idle"
    /\ lastCall = [op |-> "removePlugin", id |-> 0, ret |-> "true"]
    /\ running
    /\ aboutToClose
    /\ ~threadRunning
    /\ curPluginCount = 1

\* The audio thread's nextAction.mutex.unlock().
AudioUnlocks == rt.pc = "unlock" /\ rt'.pc = "rack"

\* Control thread c holds the mutex once and waits in its second lock().
WaitsInSecondLock(c) == mutexLocked /\ ctl[c].pc \in {"rp_wait", "ra_wait"}

\* C33: the audio thread releases the post-action mutex only while the
\* control thread that published the action holds it and waits in its second
\* lock(): it never unlocks a mutex that is not locked and never releases the
\* first acquisition before the control thread reached its second lock().
C33_AudioUnlocksHeldMutex ==
    [][AudioUnlocks => \E c \in ControlThreads : WaitsInSecondLock(c)]_vars

\* The call remove_plugin(id) of control thread c leaves the table, the
\* heap and the published action alone, reports "Could not find plugin to
\* remove" and returns false without a callback.
RemoveRefused(c, id) ==
    /\ lastCall' = [op |-> "removePlugin", id |-> id, ret |-> "false"]
    /\ lastError' = ErrNotFound
    /\ cbLog' = <<>>
    /\ ctl'[c].pc = "idle"
    /\ UNCHANGED <<curPluginCount, plugins, heap, nextAction, mutexLocked, threadRunning>>

\* C34: remove_plugin(id) with cur_plugin_count <= id < max_plugin_number
\* returns false with last_error set and changes nothing, in every reachable
\* state, also after earlier removals compacted the table.
C34_RemoveBeyondCountRefused ==
    [][\A c \in ControlThreads : \A id \in 0..(maxPluginNumber - 1) :
         (id >= curPluginCount /\ RemovePluginBegin(c, id)) => RemoveRefused(c, id)]_vars

\* No slot of the table refers to a deleted plugin.
NoSlotDangles ==
    \A i \in DOMAIN plugins :
       plugins[i].plugin # NULL => heap[plugins[i].plugin].state = "alive"

\* No plugin is referred to by two slots of the table.
NoSlotShared ==
    \A i, j \in DOMAIN plugins :
       (i # j /\ plugins[i].plugin # NULL) => plugins[i].plugin # plugins[j].plugin

\* C35: after any sequence of add_plugin, remove_plugin and
\* remove_all_plugins calls, no slot inside or outside the occupied prefix
\* refers to a deleted plugin and no plugin is referred to by two slots.
C35_SlotsAliveAndDistinct ==
    (Main.pc = "idle" /\ ~crashed) => (NoSlotDangles /\ NoSlotShared)

\* C36: between init and close cur_plugin_count stays within
\* 0..max_plugin_number: add_plugin never raises it above the maximum and
\* no sequence of remove_plugin calls takes it below 0 (no wrap-around of
\* the unsigned counter).
C36_CountWithinBounds ==
    (~crashed /\ ~aboutToClose) => curPluginCount \in 0..maxPluginNumber

\* A step that executes the published action: the drain of the audio thread
\* on a running engine, doPluginRemove / doIdle on the control thread of a
\* stopped one.
ExecutesAction ==
    \/ DrainStep
    \/ \E c \in ControlThreads :
          \/ ctl[c].pc = "rp_sync" /\ ctl'[c].pc = "rp_delete"
          \/ ctl[c].pc = "ra_sync" /\ ctl'[c].pc = "ra_unlock"

\* A block of the audio thread that finds no action published.
BlockWithoutAction == rt.pc = "top" /\ rt' # rt /\ nextAction.opcode = "Null"

\* Control thread c is in no call or past the barrier of
\* remove_all_plugins.
PostActionDone(c) == ctl[c].pc \in {"idle", "ra_loop"}

\* C37: a published post-action is executed exactly once.  The step that
\* executes it finds it published and resets the opcode to Null; a block
\* that finds the opcode Null changes neither the table nor the count; and
\* once remove_plugin has returned or remove_all_plugins has passed its
\* barrier the opcode is Null, the mutex is free, and a removal that
\* completes has been executed.
C37_ActionExecutedOnce ==
    [][/\ ExecutesAction => (nextAction.opcode # "Null" /\ nextAction'.opcode = "Null")
       /\ BlockWithoutAction =>
             (plugins' = plugins /\ curPluginCount' = curPluginCount /\ heap' = heap)
       /\ (~crashed' /\ \A c \in ControlThreads : PostActionDone(c)') =>
             (nextAction'.opcode = "Null" /\ ~mutexLocked')
       /\ \A c \in ControlThreads :
             CompletesRemove(c) => c \in executedFor]_vars

\* The housekeeping thread is inside idle().
InIdle == hk.pc # "wait"

\* A step that compacts the table or deletes a plugin.
CompactsOrDeletes ==
    \/ RemoveExecuted
    \/ \E p \in Pointers : heap[p].state = "alive" /\ heap'[p].state = "deleted"

\* C38: idle() of the housekeeping thread never runs while the table is
\* compacted or a plugin is deleted, it runs only while the thread is
\* started, and the plugin it calls enabled() and idle_gui() on has not been
\* deleted.
C38_IdleNeverSeesRemoval ==
    [][/\ InIdle => ~CompactsOrDeletes
       /\ (InIdle' /\ hk' # hk) => threadRunning
       /\ (hk'.pc \in {"enabled", "gui"} /\ ~crashed') =>
             heap'[hk'.plugin].state = "alive"]_vars

====
